---- MODULE Spec2Model ----
(***************************************************************************)
(* A model of the archive-production core of Zencore-rs: the whole-file    *)
(* AEAD envelope (crypto.rs), the passphrase envelope (encrypt_tar.rs),    *)
(* the archive state store (state.rs), collision-avoiding archive naming   *)
(* (archive_name.rs) and the three container encoders (compress.rs).       *)
(*                                                                         *)
(* Each subsystem has its own specification (SpecCrypto, SpecState,        *)
(* SpecNamer, SpecEncoder, SpecCollector, SpecBackup, SpecVerify, SpecTar, *)
(* SpecWriters); the variables of the other subsystems stay at their       *)
(* initial values. SpecPipeline follows run_backup with its files and the  *)
(* state store, SpecBackupFiles joins it with the encryptors.              *)
(***************************************************************************)
EXTENDS Integers, Sequences, FiniteSets, TLC

VARIABLES
    \* ---- file system and the encryptors (crypto.rs, encrypt_tar.rs)
    fs,        \* path -> [exists, data]: the archive, its .bak and its .age
    pc,        \* position inside the running encrypt_file / decrypt_file
    self,      \* the Encryptor / TarEncryptor value: [password, cipher]
    loc,       \* the local variables of the running function
    result,    \* "none" while running, then "ok" or "err"
    hist,      \* history: what the last encrypt_file read and wrote, what
               \* decrypt_file read
    \* ---- the archive state store (state.rs)
    disk,      \* the persisted document archives.json
    tracker,   \* the StateTracker value in memory
    metadata,  \* the ArchiveMetadata value being built
    adds,      \* add_checksum calls made on metadata
    spc,       \* position of the invocation that uses the store
    prev,      \* history: the archives map before the last add_archive
    order,     \* the iteration order of the tracker's HashMap
    listed,    \* history: the list_archives calls made and what they returned
    \* ---- ArchiveNamer::generate (archive_name.rs)
    dir,       \* the file names that exist at the destination
    namer,     \* the ArchiveNamer value: [base, algorithm]
    npc,       \* position inside generate
    counter,   \* the local `counter`
    final_name,\* the local `final_name`
    probes,    \* history: how many counters were probed
    \* ---- the container encoders (compress.rs)
    archiver,  \* the Archiver value: [source, algorithm]
    files,     \* the collected files handed to the encoder
    epc,       \* position inside compress_*
    idx,       \* index of the file the loop is at
    file_list, \* the local `file_list`
    entries,   \* the entry names written into the container so far
    eres,      \* "none" while running, then "ok" or "err"
    archive_file, \* whether a file exists at archive_path
    \* ---- Archiver::compress: collecting and ordering files (compress.rs)
    source_tree,  \* what WalkDir yields for the source, in its order
    sort_by_size, \* Archiver.sort_by_size
    num_threads,  \* size of the worker pool of the running call
    walk,         \* index of the next entry the shared WalkDir iterator yields
    parts,        \* worker -> the paths that worker has produced so far
    found,        \* the list collect_files_parallel returned
    handed,       \* `files` as handed to the encoder
    cpc,          \* position inside compress
    runs,         \* history: the collector's list of every finished call
    \* ---- Cli::run_backup (cli.rs)
    job,          \* the command line, the loaded Config and the answers given
    jpc,          \* position inside run_backup
    compression_level, \* the local `compression_level`
    should_encrypt,    \* the local `should_encrypt`
    job_password, \* the local `password`
    given,        \* what the Archiver was built with: [compression_level, password]
    encoder_level,\* the level the encoder hands to its compression library
    algorithms,   \* the local `algorithms`
    checksums_map,\* the local `checksums_map`
    enveloped,    \* whether TarEncryptor::encrypt_file ran on the archive
    job_metadata, \* the ArchiveMetadata the job stored
    jres,         \* "none" while running, then "ok" or "err"
    \* ---- Cli::run_verify (cli.rs)
    vreq,         \* the request: archive, algorithm, sidecar, digest of the file
    vpc,          \* position inside run_verify
    vstate,       \* the local `state` (the loaded archives)
    vreport,      \* the messages printed
    vres,         \* "none" while running, then "ok" or "err"
    \* ---- two invocations that share the state store (cli.rs, state.rs)
    writers,      \* invocation -> [wpc, tracker, metadata]
    overlapped    \* history: an invocation loaded while another was between
                  \* its load and the end of its save

cryptoVars == <<fs, pc, self, loc, result, hist>>
stateVars == <<disk, tracker, metadata, adds, spc, prev, order, listed>>
namerVars == <<dir, namer, npc, counter, final_name, probes>>
encoderVars == <<archiver, files, epc, idx, file_list, entries, eres, archive_file>>
collectorVars == <<source_tree, sort_by_size, num_threads, walk, parts, found, handed, cpc, runs>>
jobVars == <<job, jpc, compression_level, should_encrypt, job_password, given, encoder_level,
             algorithms, checksums_map, enveloped, job_metadata, jres>>
verifyVars == <<vreq, vpc, vstate, vreport, vres>>
writerVars == <<writers, overlapped>>

vars == <<cryptoVars, stateVars, namerVars, encoderVars, collectorVars, jobVars, verifyVars,
          writerVars>>

(***************************************************************************)
(* The values a subsystem's variables hold while it is not the one under   *)
(* study.                                                                  *)
(***************************************************************************)
EmptyMap == <<>>

NoMetadata ==
    [name |-> "", created_at |-> "", checksum |-> "", checksums |-> EmptyMap,
     algorithm |-> "", size_bytes |-> 0, file_count |-> 0, encrypted |-> FALSE,
     contents |-> <<>>]

IdleState ==
    /\ disk = [exists |-> FALSE, valid |-> TRUE, archives |-> EmptyMap]
    /\ tracker = [loaded |-> FALSE, archives |-> EmptyMap]
    /\ metadata = NoMetadata
    /\ adds = 0
    /\ spc = "off"
    /\ prev = EmptyMap
    /\ order = <<>>
    /\ listed = <<>>

NoName == [base |-> "", middle |-> <<>>, ext |-> ""]

IdleNamer ==
    /\ dir = {}
    /\ namer = [base_name |-> "", algorithm |-> ""]
    /\ npc = "off"
    /\ counter = 0
    /\ final_name = NoName
    /\ probes = 0

IdleEncoder ==
    /\ archiver = [source |-> <<>>, algorithm |-> ""]
    /\ files = <<>>
    /\ epc = "off"
    /\ idx = 0
    /\ file_list = <<>>
    /\ entries = <<>>
    /\ eres = "none"
    /\ archive_file = FALSE

IdleCollector ==
    /\ source_tree = <<>>
    /\ sort_by_size = FALSE
    /\ num_threads = 0
    /\ walk = 0
    /\ parts = <<>>
    /\ found = <<>>
    /\ handed = <<>>
    /\ cpc = "off"
    /\ runs = <<>>

NoLevel == [some |-> FALSE, value |-> 0]

NoPassword == [some |-> FALSE, value |-> <<>>]

NoJob == [algo |-> "", level |-> NoLevel, config_level |-> NoLevel, encrypt |-> FALSE,
          encrypt_by_default |-> FALSE, answer |-> FALSE, entered |-> <<>>,
          checksums |-> [some |-> FALSE, value |-> <<>>], default_hash_algorithm |-> <<>>]

IdleJob ==
    /\ job = NoJob
    /\ jpc = "off"
    /\ compression_level = NoLevel
    /\ should_encrypt = FALSE
    /\ job_password = NoPassword
    /\ given = [compression_level |-> NoLevel, password |-> NoPassword]
    /\ encoder_level = 0
    /\ algorithms = <<>>
    /\ checksums_map = EmptyMap
    /\ enveloped = FALSE
    /\ job_metadata = NoMetadata
    /\ jres = "none"

IdleWriters ==
    /\ writers = <<>>
    /\ overlapped = FALSE

IdleVerify ==
    /\ vreq = [archive |-> "", algorithm |-> [some |-> FALSE, value |-> <<>>],
               sidecar |-> [some |-> FALSE, value |-> ""], file |-> <<>>]
    /\ vpc = "off"
    /\ vstate = EmptyMap
    /\ vreport = {}
    /\ vres = "none"

(***************************************************************************)
(* Bounds of the model.                                                    *)
(***************************************************************************)
MaxLen == 2        \* longest plaintext tried
MaxAdds == 2       \* add_checksum calls on one ArchiveMetadata
MaxExisting == 3   \* longest run of counter names already at the destination
MaxFiles == 2      \* collected files handed to an encoder
MaxEntries == 3    \* entries WalkDir yields for the source tree
MaxAlgos == 2      \* checksum algorithm names asked for in one job
MaxLists == 2      \* list_archives calls in one run

(***************************************************************************)
(* Bytes and byte strings.                                                 *)
(***************************************************************************)
Byte == 0..255

ContentBytes == {1, 200}

RECURSIVE SeqsUpTo(_, _)
SeqsUpTo(S, n) ==
    IF n = 0 THEN {<<>>}
    ELSE LET shorter == SeqsUpTo(S, n - 1)
         IN  shorter \cup {Append(s, b) : s \in {t \in shorter : Len(t) = n - 1}, b \in S}

Contents == SeqsUpTo(ContentBytes, MaxLen)

\* passwords as byte strings: "", "a", "b"
Passwords == {<<>>, <<97>>, <<98>>}

Aes256Gcm == "Aes256Gcm"
ChaCha20Poly1305 == "ChaCha20Poly1305"
CipherAlgorithm == {Aes256Gcm, ChaCha20Poly1305}

(***************************************************************************)
(* The cryptographic primitives the code calls (Argon2id, AES-256-GCM,     *)
(* ChaCha20-Poly1305) are library code. They are modelled by a keyed       *)
(* mixing function over bytes: the key stream is added to the plaintext    *)
(* byte by byte, and a 16 byte tag over (algorithm, key, nonce, body) is   *)
(* appended, which decryption recomputes and compares before it releases   *)
(* any plaintext.                                                          *)
(***************************************************************************)
HashMod == 2^24 - 3

KeyLen == 32
SaltLen == 22
NonceLen == 12
TagLen == 16
HeaderLen == 36

\* a digest of a byte string, computed over its two halves
RECURSIVE TreeHash(_)
TreeHash(s) ==
    CASE Len(s) = 0 -> 1
      [] Len(s) = 1 -> s[1] + 2
      [] OTHER ->
           LET m == Len(s) \div 2
           IN  (TreeHash(SubSeq(s, 1, m)) * 31
                  + TreeHash(SubSeq(s, m + 1, Len(s))) * 17 + Len(s)) % HashMod

Absorb(h, s) == (h * 31 + TreeHash(s)) % HashMod

\* n bytes spread from the 24 bit value h
Spread(h, n) ==
    [i \in 1..n |->
        CASE i % 3 = 1 -> h % 256
          [] i % 3 = 2 -> (h \div 256) % 256
          [] OTHER     -> (h \div 65536) % 256]

\* SaltString::generate: 16 random bytes as 22 characters of unpadded base64
\* ('A' = 65, 'Q' = 81, 'g' = 103: the last character carries 2 bits only)
Salts == {[i \in 1..SaltLen |-> IF i = SaltLen THEN 65 ELSE c] : c \in {66, 67}}

\* OsRng.fill_bytes(&mut nonce_bytes)
Nonces == {[i \in 1..NonceLen |-> n] : n \in {0, 7}}

\* argon2.hash_password(password, salt).hash[..32]
Argon2Key(password, salt) ==
    Spread(Absorb(Absorb(17, password), salt), KeyLen)

CipherSeed(cipher) == IF cipher = Aes256Gcm THEN 101 ELSE 211

KeyStream(cipher, key, nonce, i) ==
    Absorb(Absorb(Absorb(CipherSeed(cipher), key), nonce), <<i>>) % 256

AeadTag(cipher, key, nonce, body) ==
    Spread(Absorb(Absorb(Absorb(CipherSeed(cipher) + 1, key), nonce), body), TagLen)

\* cipher.encrypt(nonce, plaintext): body followed by the tag
AeadEncrypt(cipher, key, nonce, plaintext) ==
    LET body == [i \in 1..Len(plaintext) |->
                    (plaintext[i] + KeyStream(cipher, key, nonce, i)) % 256]
    IN  body \o AeadTag(cipher, key, nonce, body)

\* cipher.decrypt(nonce, ciphertext): Err unless the tag verifies
AeadDecrypt(cipher, key, nonce, ciphertext) ==
    IF Len(ciphertext) < TagLen THEN [ok |-> FALSE, data |-> <<>>]
    ELSE LET n    == Len(ciphertext) - TagLen
             body == SubSeq(ciphertext, 1, n)
             tag  == SubSeq(ciphertext, n + 1, Len(ciphertext))
         IN  IF tag # AeadTag(cipher, key, nonce, body)
             THEN [ok |-> FALSE, data |-> <<>>]
             ELSE [ok |-> TRUE,
                   data |-> [i \in 1..n |->
                       (body[i] + 256 - KeyStream(cipher, key, nonce, i)) % 256]]

(***************************************************************************)
(* The file system: the archive path, "<path>.bak" and "<path>.age".       *)
(***************************************************************************)
file_path == "archive"
backup_path == "archive.bak"
encrypted_path == "archive.age"
Paths == {file_path, backup_path, encrypted_path}

NoFile == [exists |-> FALSE, data |-> <<>>]
FileOf(data) == [exists |-> TRUE, data |-> data]

\* fs::rename(from, to): `to` is replaced, `from` is gone
Rename(f, from, to) == [f EXCEPT ![to] = f[from], ![from] = NoFile]

NoLoc ==
    [plaintext |-> <<>>, key |-> <<>>, salt |-> <<>>, nonce_bytes |-> <<>>,
     ciphertext |-> <<>>, encrypted_data |-> <<>>,
     detected_cipher |-> "none", path |-> ""]

NoHist ==
    [didEnc |-> "none", didDec |-> FALSE, encHadFile |-> FALSE, encOk |-> FALSE,
     encIn |-> <<>>, encOut |-> <<>>, encPassword |-> <<>>, encCipher |-> "none",
     encSalt |-> <<>>, encNonce |-> <<>>, encCiphertext |-> <<>>,
     decIn |-> <<>>]

NoSelf == [password |-> <<>>, cipher |-> "none"]

\* a file that starts like an envelope: version, cipher_id, then 'A's up to n bytes
EnvelopeLike(version, id, n) == <<version, id>> \o [i \in 1..(n - 2) |-> 65]

\* files decrypt_file may be given that encrypt_file did not write
ForeignFiles ==
    {EnvelopeLike(v, id, HeaderLen) : v \in {1, 2}, id \in {1, 2}}
        \cup {EnvelopeLike(1, 1, HeaderLen - 1)}

InitCrypto ==
    /\ \E file \in {NoFile} \cup {FileOf(c) : c \in Contents \cup ForeignFiles},
          bak \in {NoFile, FileOf(<<9>>)} :
          fs = [p \in Paths |->
                   CASE p = file_path   -> file
                     [] p = backup_path -> bak
                     [] OTHER           -> NoFile]
    /\ pc = "idle"
    /\ self = NoSelf
    /\ loc = NoLoc
    /\ result = "none"
    /\ hist = NoHist
    /\ IdleState /\ IdleNamer /\ IdleEncoder /\ IdleCollector /\ IdleJob /\ IdleVerify
    /\ IdleWriters

(***************************************************************************)
(* Encryptor::encrypt_file, one action per statement that touches the      *)
(* file system or draws randomness. An operation is started on an idle     *)
(* file: one encryption (of either kind) and one decryption per behaviour. *)
(***************************************************************************)
Finish(r) ==
    /\ pc' = "done"
    /\ result' = r

\* Encryptor::with_cipher(password, cipher), then fs::read(file_path)?
encrypt_file_read ==
    /\ pc \in {"idle", "done"}
    /\ hist.didEnc = "none" /\ ~hist.didDec
    /\ \E pw \in Passwords, ci \in CipherAlgorithm :
          self' = [password |-> pw, cipher |-> ci]
    /\ loc' = [NoLoc EXCEPT !.plaintext = fs[file_path].data]
    /\ hist' = [hist EXCEPT !.didEnc = "aead", !.encIn = fs[file_path].data,
                            !.encHadFile = fs[file_path].exists]
    /\ IF fs[file_path].exists
       THEN pc' = "enc_derive_key" /\ result' = "none"
       ELSE Finish("err")
    /\ UNCHANGED fs
    /\ UNCHANGED <<stateVars, namerVars, encoderVars, collectorVars, jobVars, verifyVars, writerVars>>

\* self.derive_key()?
derive_key ==
    /\ pc = "enc_derive_key"
    /\ \E st \in Salts :
          loc' = [loc EXCEPT !.salt = st,
                             !.key = Argon2Key(self.password, st)]
    /\ pc' = "enc_aead"
    /\ UNCHANGED <<fs, self, result, hist>>
    /\ UNCHANGED <<stateVars, namerVars, encoderVars, collectorVars, jobVars, verifyVars, writerVars>>

\* match self.cipher { .. cipher.encrypt(nonce, plaintext) .. }
encrypt_file_aead ==
    /\ pc = "enc_aead"
    /\ \E nc \in Nonces :
          loc' = [loc EXCEPT
                    !.nonce_bytes = nc,
                    !.ciphertext = AeadEncrypt(self.cipher, loc.key, nc, loc.plaintext)]
    /\ pc' = "enc_rename"
    /\ UNCHANGED <<fs, self, result, hist>>
    /\ UNCHANGED <<stateVars, namerVars, encoderVars, collectorVars, jobVars, verifyVars, writerVars>>

\* a mutant: the original path is truncated without a backup
encrypt_file_rename_none ==
    /\ pc = "enc_rename"
    /\ fs' = [fs EXCEPT ![file_path] = NoFile]
    /\ pc' = "enc_create"
    /\ UNCHANGED <<self, loc, result, hist>>
    /\ UNCHANGED <<stateVars, namerVars, encoderVars, collectorVars, jobVars, verifyVars, writerVars>>

\* fs::rename(file_path, &backup_path)?
encrypt_file_rename ==
    /\ pc = "enc_rename"
    /\ fs' = Rename(fs, file_path, backup_path)
    /\ pc' = "enc_create"
    /\ UNCHANGED <<self, loc, result, hist>>
    /\ UNCHANGED <<stateVars, namerVars, encoderVars, collectorVars, jobVars, verifyVars, writerVars>>

\* File::create(file_path)?
encrypt_file_create ==
    /\ pc = "enc_create"
    /\ fs' = [fs EXCEPT ![file_path] = FileOf(<<>>)]
    /\ pc' = "enc_write_version"
    /\ UNCHANGED <<self, loc, result, hist>>
    /\ UNCHANGED <<stateVars, namerVars, encoderVars, collectorVars, jobVars, verifyVars, writerVars>>

WriteAll(bytes) == [fs EXCEPT ![file_path].data = @ \o bytes]

cipher_id(cipher) == IF cipher = Aes256Gcm THEN 0 ELSE 1

\* encrypted_file.write_all(&[1u8])?
encrypt_file_write_version ==
    /\ pc = "enc_write_version"
    /\ fs' = WriteAll(<<1>>)
    /\ pc' = "enc_write_cipher_id"
    /\ UNCHANGED <<self, loc, result, hist>>
    /\ UNCHANGED <<stateVars, namerVars, encoderVars, collectorVars, jobVars, verifyVars, writerVars>>

\* encrypted_file.write_all(&[match self.cipher { .. }])?
encrypt_file_write_cipher_id ==
    /\ pc = "enc_write_cipher_id"
    /\ fs' = WriteAll(<<cipher_id(self.cipher)>>)
    /\ pc' = "enc_write_salt"
    /\ UNCHANGED <<self, loc, result, hist>>
    /\ UNCHANGED <<stateVars, namerVars, encoderVars, collectorVars, jobVars, verifyVars, writerVars>>

\* encrypted_file.write_all(salt.as_str().as_bytes())?
encrypt_file_write_salt ==
    /\ pc = "enc_write_salt"
    /\ fs' = WriteAll(loc.salt)
    /\ pc' = "enc_write_nonce"
    /\ UNCHANGED <<self, loc, result, hist>>
    /\ UNCHANGED <<stateVars, namerVars, encoderVars, collectorVars, jobVars, verifyVars, writerVars>>

\* encrypted_file.write_all(&nonce_bytes)?
encrypt_file_write_nonce ==
    /\ pc = "enc_write_nonce"
    /\ fs' = WriteAll(loc.nonce_bytes)
    /\ pc' = "enc_write_ciphertext"
    /\ UNCHANGED <<self, loc, result, hist>>
    /\ UNCHANGED <<stateVars, namerVars, encoderVars, collectorVars, jobVars, verifyVars, writerVars>>

\* encrypted_file.write_all(&ciphertext)?; Ok(file_path)
encrypt_file_write_ciphertext ==
    /\ pc = "enc_write_ciphertext"
    /\ fs' = WriteAll(loc.ciphertext)
    /\ hist' = [hist EXCEPT !.encOk = TRUE,
                            !.encOut = fs'[file_path].data,
                            !.encPassword = self.password,
                            !.encCipher = self.cipher,
                            !.encSalt = loc.salt,
                            !.encNonce = loc.nonce_bytes,
                            !.encCiphertext = loc.ciphertext]
    /\ Finish("ok")
    /\ UNCHANGED <<self, loc>>
    /\ UNCHANGED <<stateVars, namerVars, encoderVars, collectorVars, jobVars, verifyVars, writerVars>>

(***************************************************************************)
(* Encryptor::decrypt_file.                                                *)
(***************************************************************************)
\* a mutant: every slice starts one byte late
SliceLate(data, from, to) == SubSeq(data, from + 2, to)

\* Rust's data[from..to]
Slice(data, from, to) == SubSeq(data, from + 1, to)

B64Alphabet == (65..90) \cup (97..122) \cup (48..57) \cup {43, 47}

\* std::str::from_utf8(..)? and SaltString::from_b64(salt_str)
ValidSalt(salt) == \A i \in 1..Len(salt) : salt[i] \in B64Alphabet

\* Encryptor::with_cipher(password, cipher), then fs::read(file_path)?
decrypt_file_read ==
    /\ pc \in {"idle", "done"}
    /\ ~hist.didDec
    /\ \E pw \in Passwords, ci \in CipherAlgorithm :
          self' = [password |-> pw, cipher |-> ci]
    /\ loc' = [NoLoc EXCEPT !.encrypted_data = fs[file_path].data]
    /\ hist' = [hist EXCEPT !.didDec = TRUE, !.decIn = fs[file_path].data]
    /\ IF fs[file_path].exists
       THEN pc' = "dec_parse" /\ result' = "none"
       ELSE Finish("err")
    /\ UNCHANGED fs
    /\ UNCHANGED <<stateVars, namerVars, encoderVars, collectorVars, jobVars, verifyVars, writerVars>>

\* a mutant: the algorithm is the one the Encryptor was constructed with
detected_cipher_of_self(id) == self.cipher

\* match cipher_id { 0 => Aes256Gcm, 1 => ChaCha20Poly1305, _ => Err }
detected_cipher_of(id) ==
    CASE id = 0 -> Aes256Gcm
      [] id = 1 -> ChaCha20Poly1305
      [] OTHER  -> "none"

\* the length, version and cipher_id checks, and the three slices
decrypt_file_parse ==
    /\ pc = "dec_parse"
    /\ LET data == loc.encrypted_data IN
       IF Len(data) < HeaderLen THEN Finish("err") /\ UNCHANGED loc
       ELSE IF data[1] # 1 THEN Finish("err") /\ UNCHANGED loc
       ELSE IF detected_cipher_of(data[2]) = "none" THEN Finish("err") /\ UNCHANGED loc
       ELSE /\ loc' = [loc EXCEPT
                        !.detected_cipher = detected_cipher_of(data[2]),
                        !.salt = Slice(data, 2, 24),
                        !.nonce_bytes = Slice(data, 24, 36),
                        !.ciphertext = Slice(data, 36, Len(data))]
            /\ pc' = "dec_derive_key"
            /\ UNCHANGED result
    /\ UNCHANGED <<fs, self, hist>>
    /\ UNCHANGED <<stateVars, namerVars, encoderVars, collectorVars, jobVars, verifyVars, writerVars>>

\* SaltString::from_b64(salt_str)?, argon2.hash_password(password, &salt)?
decrypt_file_derive_key ==
    /\ pc = "dec_derive_key"
    /\ IF ValidSalt(loc.salt)
       THEN /\ loc' = [loc EXCEPT !.key = Argon2Key(self.password, loc.salt)]
            /\ pc' = "dec_aead"
            /\ UNCHANGED result
       ELSE Finish("err") /\ UNCHANGED loc
    /\ UNCHANGED <<fs, self, hist>>
    /\ UNCHANGED <<stateVars, namerVars, encoderVars, collectorVars, jobVars, verifyVars, writerVars>>

\* a mutant: the error of cipher.decrypt is dropped
decrypt_file_aead_unchecked ==
    /\ pc = "dec_aead"
    /\ LET r == AeadDecrypt(loc.detected_cipher, loc.key, loc.nonce_bytes, loc.ciphertext) IN
       loc' = [loc EXCEPT !.plaintext = r.data]
    /\ pc' = "dec_write"
    /\ UNCHANGED <<fs, self, hist, result>>
    /\ UNCHANGED <<stateVars, namerVars, encoderVars, collectorVars, jobVars, verifyVars, writerVars>>

\* match detected_cipher { .. cipher.decrypt(nonce, ciphertext).map_err(..)? .. }
decrypt_file_aead ==
    /\ pc = "dec_aead"
    /\ LET r == AeadDecrypt(loc.detected_cipher, loc.key, loc.nonce_bytes, loc.ciphertext) IN
       IF r.ok
       THEN /\ loc' = [loc EXCEPT !.plaintext = r.data]
            /\ pc' = "dec_write"
            /\ UNCHANGED result
       ELSE Finish("err") /\ UNCHANGED loc
    /\ UNCHANGED <<fs, self, hist>>
    /\ UNCHANGED <<stateVars, namerVars, encoderVars, collectorVars, jobVars, verifyVars, writerVars>>

\* a mutant: the ciphertext is written back
decrypt_file_write_ciphertext ==
    /\ pc = "dec_write"
    /\ fs' = [fs EXCEPT ![file_path] = FileOf(loc.ciphertext)]
    /\ Finish("ok")
    /\ UNCHANGED <<self, loc, hist>>
    /\ UNCHANGED <<stateVars, namerVars, encoderVars, collectorVars, jobVars, verifyVars, writerVars>>

\* fs::write(file_path, plaintext)?; Ok(file_path)
decrypt_file_write ==
    /\ pc = "dec_write"
    /\ fs' = [fs EXCEPT ![file_path] = FileOf(loc.plaintext)]
    /\ Finish("ok")
    /\ UNCHANGED <<self, loc, hist>>
    /\ UNCHANGED <<stateVars, namerVars, encoderVars, collectorVars, jobVars, verifyVars, writerVars>>

(***************************************************************************)
(* TarEncryptor::encrypt_file: the passphrase envelope of the age crate,   *)
(* ASCII armored. The age stream is modelled as its magic line, the scrypt *)
(* salt, the nonce and the sealed payload, base64 encoded between the two  *)
(* armor lines (the 64 column line breaks of the armor are left out).      *)
(***************************************************************************)
\* "age-encryption.org/v1\n"
AgeMagic ==
    <<97, 103, 101, 45, 101, 110, 99, 114, 121, 112, 116, 105, 111, 110,
      46, 111, 114, 103, 47, 118, 49, 10>>

\* "-----BEGIN AGE ENCRYPTED FILE-----\n"
ArmorBegin ==
    <<45, 45, 45, 45, 45, 66, 69, 71, 73, 78, 32, 65, 71, 69, 32, 69, 78,
      67, 82, 89, 80, 84, 69, 68, 32, 70, 73, 76, 69, 45, 45, 45, 45, 45,
      10>>

\* "-----END AGE ENCRYPTED FILE-----\n"
ArmorEnd ==
    <<45, 45, 45, 45, 45, 69, 78, 68, 32, 65, 71, 69, 32, 69, 78, 67, 82,
      89, 80, 84, 69, 68, 32, 70, 73, 76, 69, 45, 45, 45, 45, 45, 10>>

B64Char(v) ==
    CASE v < 26 -> 65 + v
      [] v < 52 -> 97 + (v - 26)
      [] v < 62 -> 48 + (v - 52)
      [] v = 62 -> 43
      [] OTHER  -> 47

\* standard base64 with '=' padding: character j of the encoding
Base64(bytes) ==
    LET n == Len(bytes)
        At(i) == IF i <= n THEN bytes[i] ELSE 0
    IN  [j \in 1..(4 * ((n + 2) \div 3)) |->
            LET k   == 3 * ((j - 1) \div 4)
                pos == (j - 1) % 4
            IN  CASE pos = 0 -> B64Char(At(k + 1) \div 4)
                  [] pos = 1 -> B64Char((At(k + 1) % 4) * 16 + At(k + 2) \div 16)
                  [] pos = 2 -> IF k + 2 <= n
                                THEN B64Char((At(k + 2) % 16) * 4 + At(k + 3) \div 64)
                                ELSE 61
                  [] OTHER   -> IF k + 3 <= n THEN B64Char(At(k + 3) % 64) ELSE 61]

\* the scrypt work of age::Encryptor::with_user_passphrase
ScryptKey(password, salt) ==
    Spread(Absorb(Absorb(23, password), salt), KeyLen)

\* encryptor.wrap_output(ArmoredWriter), write_all of every chunk, finish
AgeEncrypt(password, salt, nonce, plaintext) ==
    ArmorBegin
      \o Base64(AgeMagic \o salt \o nonce
                 \o AeadEncrypt(ChaCha20Poly1305, ScryptKey(password, salt), nonce, plaintext))
      \o <<10>> \o ArmorEnd

\* TarEncryptor::new(password), then fs::metadata(tar_path)?
tar_encrypt_file_metadata ==
    /\ pc \in {"idle", "done"}
    /\ hist.didEnc = "none" /\ ~hist.didDec
    /\ \E pw \in Passwords :
          self' = [password |-> pw, cipher |-> "none"]
    /\ loc' = NoLoc
    /\ hist' = [hist EXCEPT !.didEnc = "age", !.encIn = fs[file_path].data,
                            !.encHadFile = fs[file_path].exists]
    /\ IF fs[file_path].exists
       THEN pc' = "tar_create" /\ result' = "none"
       ELSE Finish("err")
    /\ UNCHANGED fs
    /\ UNCHANGED <<stateVars, namerVars, encoderVars, collectorVars, jobVars, verifyVars, writerVars>>

\* File::open(tar_path)?, File::create(&encrypted_path)?
tar_encrypt_file_create ==
    /\ pc = "tar_create"
    /\ fs' = [fs EXCEPT ![encrypted_path] = FileOf(<<>>)]
    /\ pc' = "tar_write"
    /\ UNCHANGED <<self, loc, result, hist>>
    /\ UNCHANGED <<stateVars, namerVars, encoderVars, collectorVars, jobVars, verifyVars, writerVars>>

\* the read/write loop over 64 KiB chunks and the two finish() calls
tar_encrypt_file_write ==
    /\ pc = "tar_write"
    /\ \E st \in Salts, nc \in Nonces :
          fs' = [fs EXCEPT ![encrypted_path] =
                    FileOf(AgeEncrypt(self.password, st, nc, fs[file_path].data))]
    /\ pc' = "tar_rename_backup"
    /\ UNCHANGED <<self, loc, result, hist>>
    /\ UNCHANGED <<stateVars, namerVars, encoderVars, collectorVars, jobVars, verifyVars, writerVars>>

\* fs::rename(tar_path, &backup_path)?
tar_encrypt_file_rename_backup ==
    /\ pc = "tar_rename_backup"
    /\ fs' = Rename(fs, file_path, backup_path)
    /\ pc' = "tar_rename_encrypted"
    /\ UNCHANGED <<self, loc, result, hist>>
    /\ UNCHANGED <<stateVars, namerVars, encoderVars, collectorVars, jobVars, verifyVars, writerVars>>

\* fs::rename(&encrypted_path, tar_path)?; Ok(tar_path)
tar_encrypt_file_rename_encrypted ==
    /\ pc = "tar_rename_encrypted"
    /\ fs' = Rename(fs, encrypted_path, file_path)
    /\ hist' = [hist EXCEPT !.encOk = TRUE,
                            !.encOut = fs'[file_path].data,
                            !.encPassword = self.password]
    /\ Finish("ok")
    /\ UNCHANGED <<self, loc>>
    /\ UNCHANGED <<stateVars, namerVars, encoderVars, collectorVars, jobVars, verifyVars, writerVars>>

NextCrypto ==
    \/ encrypt_file_read
    \/ derive_key
    \/ encrypt_file_aead
    \/ encrypt_file_rename
    \/ encrypt_file_create
    \/ encrypt_file_write_version
    \/ encrypt_file_write_cipher_id
    \/ encrypt_file_write_salt
    \/ encrypt_file_write_nonce
    \/ encrypt_file_write_ciphertext
    \/ decrypt_file_read
    \/ decrypt_file_parse
    \/ decrypt_file_derive_key
    \/ decrypt_file_aead
    \/ decrypt_file_write
    \/ tar_encrypt_file_metadata
    \/ tar_encrypt_file_create
    \/ tar_encrypt_file_write
    \/ tar_encrypt_file_rename_backup
    \/ tar_encrypt_file_rename_encrypted

SpecCrypto == InitCrypto /\ [][NextCrypto]_vars

(***************************************************************************)
(* Claims about the whole-file AEAD envelope, checked under SpecCrypto.    *)
(***************************************************************************)
\* the file decrypt_file was given is the one Encryptor::encrypt_file wrote
DecryptsEnvelope ==
    /\ hist.didEnc = "aead" /\ hist.encOk
    /\ hist.didDec /\ hist.decIn = hist.encOut

\* C1: encrypt_file followed by decrypt_file on the same path with the same
\* password succeeds and leaves the file with exactly the bytes it had before
\* encrypt_file, for every content (the empty one included), every password
\* and both ciphers.
C1_RoundTrip ==
    (DecryptsEnvelope /\ pc = "done" /\ self.password = hist.encPassword)
        => /\ result = "ok"
           /\ fs[file_path] = FileOf(hist.encIn)

C1_Witness ==
    /\ DecryptsEnvelope /\ pc = "done" /\ self.password = hist.encPassword
    /\ result = "ok"
    /\ Len(hist.encIn) = MaxLen
    /\ hist.encOut # hist.encIn

\* C2: decrypt_file with a password other than the one encrypt_file used
\* returns an error and at no step writes the path: the file stays
\* byte-identical to the envelope.
C2_WrongPassword ==
    (DecryptsEnvelope /\ self.password # hist.encPassword)
        => /\ fs[file_path] = FileOf(hist.encOut)
           /\ pc # "dec_write"
           /\ result # "ok"
           /\ (pc = "done" => result = "err")

C2_Witness ==
    /\ DecryptsEnvelope /\ self.password # hist.encPassword
    /\ pc = "done" /\ result = "err"
    /\ loc.key # <<>>
    /\ Len(hist.encIn) > 0

\* C3: at every step of Encryptor::encrypt_file and TarEncryptor::encrypt_file
\* the complete original plaintext is on disk at the original path or at
\* "<path>.bak": whenever the original path no longer holds it, the backup does.
C3_PlaintextPreserved ==
    (hist.didEnc # "none" /\ hist.encHadFile /\ ~hist.didDec)
        => (fs[file_path] # FileOf(hist.encIn)
                => fs[backup_path] = FileOf(hist.encIn))

C3_Witness ==
    /\ hist.didEnc = "aead" /\ hist.encHadFile
    /\ pc = "enc_write_salt"
    /\ Len(hist.encIn) > 0
    /\ fs[file_path] = FileOf(<<1, 0>>)
    /\ fs[backup_path] = FileOf(hist.encIn)

\* C9: the file encrypt_file writes is version byte 1, the cipher id (0 for
\* AES-256-GCM, 1 for ChaCha20-Poly1305), 22 bytes of salt, 12 bytes of nonce
\* and the ciphertext, 36 + Len(ciphertext) bytes in all; and decrypt_file
\* reads salt, nonce and ciphertext back from the offsets they were written at.
C9_EnvelopeLayout ==
    /\ (hist.didEnc = "aead" /\ hist.encOk /\ ~hist.didDec)
         => /\ fs[file_path].data =
                  <<1, IF hist.encCipher = Aes256Gcm THEN 0 ELSE 1>>
                     \o hist.encSalt \o hist.encNonce \o hist.encCiphertext
            /\ Len(hist.encSalt) = 22
            /\ Len(hist.encNonce) = 12
            /\ Len(fs[file_path].data) = 36 + Len(hist.encCiphertext)
    /\ (DecryptsEnvelope /\ pc \in {"dec_derive_key", "dec_aead", "dec_write"})
         => /\ loc.salt = hist.encSalt
            /\ loc.nonce_bytes = hist.encNonce
            /\ loc.ciphertext = hist.encCiphertext

C9_Witness ==
    /\ DecryptsEnvelope /\ pc = "dec_derive_key"
    /\ hist.encCipher = ChaCha20Poly1305
    /\ Len(hist.encCiphertext) > TagLen
    /\ loc.ciphertext = hist.encCiphertext

\* C10: decrypt_file takes the AEAD algorithm from the cipher_id byte of the
\* envelope and not from the cipher the Encryptor was constructed with: an
\* Encryptor configured for the other cipher decrypts the envelope with the
\* right password.
C10_CipherFromEnvelope ==
    (DecryptsEnvelope /\ self.cipher # hist.encCipher)
        => /\ (pc \in {"dec_derive_key", "dec_aead", "dec_write"}
                 => loc.detected_cipher = hist.encCipher)
           /\ (pc = "done" /\ self.password = hist.encPassword
                 => result = "ok" /\ fs[file_path] = FileOf(hist.encIn))

C10_Witness ==
    /\ DecryptsEnvelope /\ self.cipher # hist.encCipher
    /\ self.password = hist.encPassword
    /\ pc = "done" /\ result = "ok"
    /\ loc.detected_cipher = hist.encCipher
    /\ Len(hist.encIn) > 0

\* what decrypt_file has to reject: fewer than 36 bytes, a version byte other
\* than 1, a cipher_id byte other than 0 and 1
Malformed(data) ==
    \/ Len(data) < 36
    \/ data[1] # 1
    \/ data[2] \notin {0, 1}

\* C30: Encryptor::decrypt_file rejects a malformed envelope (shorter than 36
\* bytes, first byte not 1, or cipher_id neither 0 nor 1) before it derives a
\* key: it returns an error and the file at the path stays as it was.
C30_MalformedRejected ==
    (hist.didDec /\ Malformed(hist.decIn)) =>
        /\ pc \notin {"dec_derive_key", "dec_aead", "dec_write"}
        /\ loc.key = <<>>
        /\ fs[file_path].data = hist.decIn
        /\ pc = "done" => result = "err"

C30_Witness ==
    /\ hist.didDec /\ pc = "done" /\ result = "err"
    /\ Len(hist.decIn) = 36
    /\ hist.decIn[1] = 1 /\ hist.decIn[2] = 2
    /\ fs[file_path] = FileOf(hist.decIn)

(***************************************************************************)
(* The archive state store (state.rs). Algorithm names are strings of      *)
(* ASCII codes, so that to_uppercase is computed and not assumed.          *)
(***************************************************************************)
IdleCrypto ==
    /\ fs = [p \in Paths |-> NoFile]
    /\ pc = "off"
    /\ self = NoSelf
    /\ loc = NoLoc
    /\ result = "none"
    /\ hist = NoHist

\* "sha256", "sha-256", "SHA-256", "blake3": names a caller may pass
str_sha256 == <<115, 104, 97, 50, 53, 54>>
str_sha_256 == <<115, 104, 97, 45, 50, 53, 54>>
str_SHA_256 == <<83, 72, 65, 45, 50, 53, 54>>
str_SHA256 == <<83, 72, 65, 50, 53, 54>>
str_blake3 == <<98, 108, 97, 107, 101, 51>>
str_BLAKE3 == <<66, 76, 65, 75, 69, 51>>

AlgorithmNames == {str_sha256, str_sha_256, str_SHA_256, str_blake3}

Hashes == {"h1", "h2"}
ArchiveNames == {"a", "b"}
Times == {"t2", "t3"}

\* str::to_uppercase on ASCII
to_uppercase(str) ==
    [i \in 1..Len(str) |-> IF str[i] \in 97..122 THEN str[i] - 32 ELSE str[i]]


\* HashMap::insert
MapInsert(map, k, v) ==
    [x \in (DOMAIN map) \cup {k} |-> IF x = k THEN v ELSE map[x]]

None == [some |-> FALSE, value |-> ""]
Some(v) == [some |-> TRUE, value |-> v]

\* ArchiveMetadata::get_checksum
get_checksum(m, algorithm) ==
    LET algo_upper == to_uppercase(algorithm) IN
    IF algo_upper \in DOMAIN m.checksums THEN Some(m.checksums[algo_upper])
    ELSE IF algo_upper = str_SHA_256 \/ algo_upper = str_SHA256
         THEN IF m.checksum # "" THEN Some(m.checksum) ELSE None
         ELSE None

\* ArchiveMetadata::add_checksum
add_checksum_to(m, algorithm, hash) ==
    LET algo_upper == to_uppercase(algorithm)
        inserted   == [m EXCEPT !.checksums = MapInsert(m.checksums, algo_upper, hash)]
    IN  IF algo_upper = str_SHA256 \/ algo_upper = str_SHA_256
        THEN [inserted EXCEPT !.checksum = hash]
        ELSE inserted

\* a mutant: a legacy value is never copied into the digest set
migrate_record_not(m) == m

\* the body of the loop of StateTracker::migrate_old_format
migrate_record(m) ==
    IF m.checksum # "" /\ m.checksums = EmptyMap
    THEN [m EXCEPT !.checksums = MapInsert(m.checksums, str_SHA_256, m.checksum)]
    ELSE m

\* StateTracker::migrate_old_format
migrate_old_format(archives) ==
    [n \in DOMAIN archives |-> migrate_record(archives[n])]

(***************************************************************************)
(* The persisted document. A persisted record holds the fields of          *)
(* ArchiveMetadata; `present` tells which of the two #[serde(default)]     *)
(* fields the JSON object has.                                             *)
(***************************************************************************)
Persisted(m, present) == [fields |-> m, present |-> present]

\* serde_json::from_str of one record: an absent field takes its default
Deserialize(p) ==
    [p.fields EXCEPT
        !.checksum  = IF "checksum" \in p.present THEN @ ELSE "",
        !.checksums = IF "checksums" \in p.present THEN @ ELSE EmptyMap]

\* serde_json::to_string_pretty of one record: every field is written
Serialize(m) == Persisted(m, {"checksum", "checksums"})

BaseRecord(name, t) ==
    [NoMetadata EXCEPT !.name = name, !.created_at = t, !.algorithm = "tar.zst",
                       !.size_bytes = 10, !.file_count = 1, !.contents = <<"f">>]

\* a record of the older schema: the single `checksum` field
LegacyRecord(name, t, h) ==
    Persisted([BaseRecord(name, t) EXCEPT !.checksum = h], {"checksum"})

\* a record of the current schema, as run_backup builds it
CurrentRecord(name, t, algos, h) ==
    LET withSha == IF str_SHA_256 \in algos
                   THEN add_checksum_to(BaseRecord(name, t), str_SHA_256, h)
                   ELSE BaseRecord(name, t)
        withAll == IF str_BLAKE3 \in algos
                   THEN add_checksum_to(withSha, str_BLAKE3, "h2")
                   ELSE withSha
    IN  Serialize(withAll)

PersistedRecords(name) ==
    {LegacyRecord(name, t, h) : t \in {"t1"}, h \in {"", "h1"}}
      \cup {CurrentRecord(name, "t2", algos, "h1") :
               algos \in {{str_SHA_256}, {str_BLAKE3}, {str_SHA_256, str_BLAKE3}}}

Documents ==
    UNION {[names -> UNION {PersistedRecords(n) : n \in names}] : names \in SUBSET ArchiveNames}

WellKeyed(doc) == \A n \in DOMAIN doc : doc[n].fields.name = n

InitState ==
    /\ \E doc \in {d \in Documents : WellKeyed(d)} :
          disk \in {[exists |-> FALSE, valid |-> TRUE, archives |-> EmptyMap],
                    [exists |-> TRUE, valid |-> FALSE, archives |-> EmptyMap],
                    [exists |-> TRUE, valid |-> TRUE, archives |-> doc]}
    /\ tracker = [loaded |-> FALSE, archives |-> EmptyMap]
    /\ metadata = NoMetadata
    /\ adds = 0
    /\ spc = "start"
    /\ prev = EmptyMap
    /\ order = <<>>
    /\ listed = <<>>
    /\ IdleCrypto /\ IdleNamer /\ IdleEncoder /\ IdleCollector /\ IdleJob /\ IdleVerify
    /\ IdleWriters

(***************************************************************************)
(* One invocation that records an archive, as the tail of run_backup does: *)
(* build the ArchiveMetadata, add its checksums, then StateTracker::load,  *)
(* add_archive, save. A later load reads the document back.                *)
(***************************************************************************)
\* ArchiveMetadata { checksum: String::new(), checksums: HashMap::new(), .. }
new_metadata ==
    /\ spc = "start"
    /\ \E nm \in ArchiveNames, t \in Times :
          metadata' = BaseRecord(nm, t)
    /\ spc' = "build"
    /\ UNCHANGED <<disk, tracker, adds, prev, order, listed>>
    /\ UNCHANGED <<cryptoVars, namerVars, encoderVars, collectorVars, jobVars, verifyVars, writerVars>>

\* metadata.add_checksum(&algo_name, hash)
add_checksum ==
    /\ spc = "build"
    /\ adds < MaxAdds
    /\ \E alg \in AlgorithmNames, h \in Hashes :
          metadata' = add_checksum_to(metadata, alg, h)
    /\ adds' = adds + 1
    /\ UNCHANGED <<disk, tracker, spc, prev, order, listed>>
    /\ UNCHANGED <<cryptoVars, namerVars, encoderVars, collectorVars, jobVars, verifyVars, writerVars>>

\* the orders in which a HashMap with these keys may be iterated
IterationOrders(keys) ==
    {q \in SeqsUpTo(keys, Cardinality(keys)) :
        Len(q) = Cardinality(keys) /\ \A k \in keys : \E i \in 1..Len(q) : q[i] = k}

\* what load leaves in memory: Ok(tracker), or the error of read/from_str
Loaded(d) ==
    IF ~d.exists THEN [loaded |-> TRUE, archives |-> EmptyMap]
    ELSE IF ~d.valid THEN [loaded |-> FALSE, archives |-> EmptyMap]
    ELSE [loaded |-> TRUE,
          archives |-> migrate_old_format(
              [n \in DOMAIN d.archives |-> Deserialize(d.archives[n])])]

\* a mutant: load stores the migrated document
load_write_back ==
    /\ spc \in {"start", "build", "saved", "crashed"}
    /\ tracker' = Loaded(disk)
    /\ order' \in IterationOrders(DOMAIN tracker'.archives)
    /\ spc' = IF ~tracker'.loaded THEN "load_failed"
              ELSE IF spc = "saved" THEN "reloaded" ELSE "loaded"
    /\ disk' = IF disk.exists /\ disk.valid
               THEN [disk EXCEPT !.archives = [n \in DOMAIN tracker'.archives |->
                                                  Serialize(tracker'.archives[n])]]
               ELSE disk
    /\ UNCHANGED <<metadata, adds, prev, listed>>
    /\ UNCHANGED <<cryptoVars, namerVars, encoderVars, collectorVars, jobVars, verifyVars, writerVars>>

\* StateTracker::load; an invocation that stopped inside save is followed by
\* a new one that loads
load ==
    /\ spc \in {"start", "build", "saved", "crashed"}
    /\ tracker' = Loaded(disk)
    /\ order' \in IterationOrders(DOMAIN tracker'.archives)
    /\ spc' = IF ~tracker'.loaded THEN "load_failed"
              ELSE IF spc = "saved" THEN "reloaded" ELSE "loaded"
    /\ UNCHANGED <<disk, metadata, adds, prev, listed>>
    /\ UNCHANGED <<cryptoVars, namerVars, encoderVars, collectorVars, jobVars, verifyVars, writerVars>>

\* a mutant: a record already stored under the name is kept
add_archive_keep ==
    /\ spc = "loaded"
    /\ metadata # NoMetadata
    /\ prev' = tracker.archives
    /\ tracker' = [tracker EXCEPT !.archives =
                      IF metadata.name \in DOMAIN @ THEN @
                      ELSE MapInsert(@, metadata.name, metadata)]
    /\ order' \in IterationOrders(DOMAIN tracker'.archives)
    /\ spc' = "added"
    /\ UNCHANGED <<disk, metadata, adds, listed>>
    /\ UNCHANGED <<cryptoVars, namerVars, encoderVars, collectorVars, jobVars, verifyVars, writerVars>>

\* StateTracker::add_archive
add_archive ==
    /\ spc = "loaded"
    /\ metadata # NoMetadata
    /\ prev' = tracker.archives
    /\ tracker' = [tracker EXCEPT !.archives = MapInsert(@, metadata.name, metadata)]
    /\ order' \in IterationOrders(DOMAIN tracker'.archives)
    /\ spc' = "added"
    /\ UNCHANGED <<disk, metadata, adds, listed>>
    /\ UNCHANGED <<cryptoVars, namerVars, encoderVars, collectorVars, jobVars, verifyVars, writerVars>>

\* serde_json::to_string_pretty(self), stored whole
Document(archives) ==
    [exists |-> TRUE, valid |-> TRUE,
     archives |-> [n \in DOMAIN archives |-> Serialize(archives[n])]]

\* File::create inside fs::write: the file exists and is empty, which is not
\* a JSON document
Truncated == [exists |-> TRUE, valid |-> FALSE, archives |-> EmptyMap]

\* StateTracker::save up to the opening of the file by fs::write
save ==
    /\ spc = "added"
    /\ disk' = Truncated
    /\ spc' = "save_write"
    /\ UNCHANGED <<tracker, metadata, adds, prev, order, listed>>
    /\ UNCHANGED <<cryptoVars, namerVars, encoderVars, collectorVars, jobVars, verifyVars, writerVars>>

\* StateTracker::save, write_all inside fs::write and the return
save_write_all ==
    /\ spc = "save_write"
    /\ disk' = Document(tracker.archives)
    /\ spc' = "saved"
    /\ UNCHANGED <<tracker, metadata, adds, prev, order, listed>>
    /\ UNCHANGED <<cryptoVars, namerVars, encoderVars, collectorVars, jobVars, verifyVars, writerVars>>

\* the process stops inside fs::write; what is in memory is gone
save_stopped ==
    /\ spc = "save_write"
    /\ spc' = "crashed"
    /\ UNCHANGED <<disk, tracker, metadata, adds, prev, order, listed>>
    /\ UNCHANGED <<cryptoVars, namerVars, encoderVars, collectorVars, jobVars, verifyVars, writerVars>>

\* StateTracker::get_archive
get_archive(name) ==
    IF name \in DOMAIN tracker.archives
    THEN [some |-> TRUE, value |-> tracker.archives[name]]
    ELSE [some |-> FALSE, value |-> NoMetadata]

\* StateTracker::archive_count
archive_count == Cardinality(DOMAIN tracker.archives)

\* created_at strings in the order of String::cmp
CreatedAtRank(t) ==
    IF t = "t1" THEN 1 ELSE IF t = "t2" THEN 2 ELSE IF t = "t3" THEN 3 ELSE 0

\* |a, b| b.created_at.cmp(&a.created_at) is not Greater: a may stay before b
by_created_at_descending(a, b) == CreatedAtRank(b.created_at) <= CreatedAtRank(a.created_at)

\* slice::sort_by: a stable sort
RECURSIVE sort_by(_)
sort_by(q) ==
    IF Len(q) <= 1 THEN q
    ELSE LET rest == sort_by(SubSeq(q, 1, Len(q) - 1))
             x == q[Len(q)]
             before == {i \in 1..Len(rest) : by_created_at_descending(rest[i], x)}
             k == Cardinality(before)
         IN  SubSeq(rest, 1, k) \o <<x>> \o SubSeq(rest, k + 1, Len(rest))

\* self.archives.values().collect()
values == [i \in 1..Len(order) |-> tracker.archives[order[i]]]

\* StateTracker::list_archives
list_archives ==
    /\ spc \in {"loaded", "saved", "reloaded"}
    /\ Len(listed) < MaxLists
    /\ listed' = Append(listed, [contents |-> tracker.archives, archives |-> sort_by(values)])
    /\ UNCHANGED <<disk, tracker, metadata, adds, spc, prev, order>>
    /\ UNCHANGED <<cryptoVars, namerVars, encoderVars, collectorVars, jobVars, verifyVars, writerVars>>

NextState ==
    \/ new_metadata
    \/ add_checksum
    \/ load
    \/ add_archive
    \/ save
    \/ save_write_all
    \/ save_stopped
    \/ list_archives

SpecState == InitState /\ [][NextState]_vars

(***************************************************************************)
(* Claims about the state store, checked under SpecState.                  *)
(***************************************************************************)
LegacyMirrored(m) ==
    m.checksum # ""
        => /\ str_SHA_256 \in DOMAIN m.checksums
           /\ m.checksums[str_SHA_256] = m.checksum

\* C4: for every ArchiveMetadata record, after any sequence of add_checksum
\* calls (whatever the spelling or case of the algorithm name) and after the
\* migration done by load, a non-empty legacy `checksum` field has an equal
\* entry under the key "SHA-256" of the digest set.
C4_LegacyEqualsDigestSet ==
    /\ spc = "build" => LegacyMirrored(metadata)
    /\ tracker.loaded =>
          \A n \in DOMAIN tracker.archives : LegacyMirrored(tracker.archives[n])

\* C6: add_archive is an upsert keyed by name: get_archive(m.name) is exactly
\* m afterwards, the records of the other names are as they were, and
\* archive_count grew by one exactly when the name was new.
C6_AddArchiveUpsert ==
    spc = "added" =>
        /\ get_archive(metadata.name) = [some |-> TRUE, value |-> metadata]
        /\ \A n \in ((DOMAIN prev) \cup (DOMAIN tracker.archives)) \ {metadata.name} :
              /\ n \in DOMAIN prev
              /\ n \in DOMAIN tracker.archives
              /\ tracker.archives[n] = prev[n]
        /\ archive_count =
              Cardinality(DOMAIN prev) + (IF metadata.name \in DOMAIN prev THEN 0 ELSE 1)

C6_Witness ==
    /\ spc = "added"
    /\ Cardinality(DOMAIN prev) = 2
    /\ prev[metadata.name] # metadata
    /\ prev[metadata.name].checksums # EmptyMap
    /\ metadata.checksums = EmptyMap
    /\ archive_count = 2

\* C7: after load, a record persisted with a non-empty legacy `checksum` and
\* no digest set has that value under the key "SHA-256" (get_checksum("SHA-256")
\* returns it), and a record persisted with a non-empty digest set is returned
\* as persisted.
C7_LoadMigratesLegacy ==
    (spc = "loaded" /\ disk.exists /\ disk.valid) =>
        /\ DOMAIN tracker.archives = DOMAIN disk.archives
        /\ \A n \in DOMAIN disk.archives :
              LET p == disk.archives[n]
                  r == tracker.archives[n]
              IN  /\ ("checksum" \in p.present /\ p.fields.checksum # ""
                        /\ "checksums" \notin p.present)
                       => /\ str_SHA_256 \in DOMAIN r.checksums
                          /\ r.checksums[str_SHA_256] = p.fields.checksum
                          /\ get_checksum(r, str_SHA_256) = Some(p.fields.checksum)
                  /\ ("checksums" \in p.present /\ p.fields.checksums # EmptyMap)
                       => r = p.fields

C7_Witness ==
    /\ spc = "loaded" /\ disk.exists /\ disk.valid
    /\ DOMAIN disk.archives = {"a", "b"}
    /\ disk.archives["a"].present = {"checksum"}
    /\ disk.archives["a"].fields.checksum = "h1"
    /\ tracker.archives["a"].checksums = MapInsert(EmptyMap, str_SHA_256, "h1")
    /\ disk.archives["b"].fields.checksums # EmptyMap
    /\ str_SHA_256 \notin DOMAIN tracker.archives["b"].checksums

\* C15: save replaces the persisted document atomically: wherever the process
\* stops inside save, the file holds either the complete document that was
\* there before (or is absent as before) or the complete new document, never
\* an empty or partly written one.
C15_SaveAtomic ==
    spc \in {"save_write", "crashed"} =>
        \/ disk = Document(tracker.archives)
        \/ Loaded(disk) = [loaded |-> TRUE, archives |-> prev]

\* C16: load, with the migration of legacy records it does in memory, leaves
\* the persisted document as it was; the document changes only in a step of
\* save.
C16_LoadNeverWrites ==
    [][/\ (spc' # spc /\ spc' \in {"loaded", "reloaded", "load_failed"}) => disk' = disk
       /\ disk' # disk => spc \in {"added", "save_write"}]_vars

C16_Witness ==
    /\ spc = "loaded" /\ disk.exists /\ disk.valid
    /\ \E n \in DOMAIN disk.archives :
          /\ disk.archives[n].present = {"checksum"}
          /\ tracker.archives[n] # Deserialize(disk.archives[n])
          /\ tracker.archives[n].checksums # EmptyMap

\* C17: list_archives returns every stored record exactly once, the most
\* recently created first, and two calls over the same store contents return
\* the same order, also when records have equal creation times.
C17_ListStableOrder ==
    \A i \in 1..Len(listed) :
        LET call == listed[i] IN
        /\ Len(call.archives) = Cardinality(DOMAIN call.contents)
        /\ \A n \in DOMAIN call.contents :
              Cardinality({k \in 1..Len(call.archives) : call.archives[k] = call.contents[n]}) = 1
        /\ \A k, l \in 1..Len(call.archives) :
              k < l => CreatedAtRank(call.archives[k].created_at)
                          >= CreatedAtRank(call.archives[l].created_at)
        /\ \A j \in 1..Len(listed) :
              listed[j].contents = call.contents => listed[j].archives = call.archives

(***************************************************************************)
(* ArchiveNamer::generate (archive_name.rs). A file name is a record of    *)
(* the parts that format! joins with ".": the base, an optional middle     *)
(* part kept as its characters (the decimal digits of the counter, or      *)
(* "copy"), and the extension; base_name is the name after template        *)
(* expansion. The destination directory is given by the names of this base *)
(* and extension it holds: `plain` (base.ext), the counters 1..upto, the   *)
(* further counters in `others`, and `copy` (base.copy.ext).               *)
(***************************************************************************)
MaxCounter == 9999

\* ArchiveNamer::get_extension
get_extension(algorithm) ==
    CASE algorithm = "tar.gz"  -> "tar.gz"
      [] algorithm = "tar.zst" -> "tar.zst"
      [] algorithm = "zip"     -> "zip"
      [] OTHER                 -> "archive"

\* Display for the counter: its decimal digits, as character codes
RECURSIVE Decimal(_)
Decimal(k) == IF k < 10 THEN <<48 + k>> ELSE Append(Decimal(k \div 10), 48 + (k % 10))

\* the characters of "copy"
str_copy == <<99, 111, 112, 121>>

\* format!("{}.{}", base, ext)
format_name(base, ext) == [base |-> base, middle |-> <<>>, ext |-> ext]

\* format!("{}.{}.{}", base, counter, ext)
format_counter_name(base, k, ext) == [base |-> base, middle |-> Decimal(k), ext |-> ext]

\* format!("{}.copy.{}", base, ext)
format_copy_name(base, ext) == [base |-> base, middle |-> str_copy, ext |-> ext]

\* the number a middle part spells in decimal, 0 when it spells none
RECURSIVE DecimalValue(_)
DecimalValue(m) ==
    IF m = <<>> THEN 0
    ELSE DecimalValue(SubSeq(m, 1, Len(m) - 1)) * 10 + (m[Len(m)] - 48)

CounterOf(m) ==
    IF m # <<>> /\ (\A i \in 1..Len(m) : m[i] \in 48..57) /\ Decimal(DecimalValue(m)) = m
    THEN DecimalValue(m)
    ELSE 0

\* the names the directory description d stands for
CounterExists(d, k) == k \in 1..d.upto \/ k \in d.others

\* Path::new(&self.destination).join(&final_name).exists()
exists(d, base, ext, name) ==
    /\ name.base = base /\ name.ext = ext
    /\ \/ d.plain /\ name.middle = <<>>
       \/ d.copy /\ name.middle = str_copy
       \/ CounterExists(d, CounterOf(name.middle))

Directories(uptos) ==
    UNION {{[plain |-> pl, upto |-> u, others |-> o, copy |-> cp] :
                pl \in BOOLEAN, o \in {{}, {u + 2}}, cp \in BOOLEAN} : u \in uptos}

InitNamer ==
    /\ \/ /\ dir \in Directories(0..MaxExisting)
          /\ \E alg \in {"tar.gz", "tar.zst", "zip", "7z"} :
                namer = [base_name |-> "backup", algorithm |-> alg]
       \/ /\ dir \in Directories({MaxCounter - 1, MaxCounter})
          /\ dir.plain /\ dir.others = {}
          /\ namer = [base_name |-> "backup", algorithm |-> "tar.zst"]
    /\ npc = "start"
    /\ counter = 0
    /\ final_name = NoName
    /\ probes = 0
    /\ IdleCrypto /\ IdleState /\ IdleEncoder /\ IdleCollector /\ IdleJob /\ IdleVerify
    /\ IdleWriters

\* let mut final_name = format!("{}.{}", base, ext); if full_path.exists() { counter = 1
generate_first ==
    /\ npc = "start"
    /\ LET base == namer.base_name
           ext  == get_extension(namer.algorithm)
       IN  /\ final_name' = format_name(base, ext)
           /\ IF exists(dir, base, ext, format_name(base, ext))
              THEN npc' = "loop" /\ counter' = 1
              ELSE npc' = "done" /\ counter' = counter
    /\ UNCHANGED <<dir, namer, probes>>
    /\ UNCHANGED <<cryptoVars, stateVars, encoderVars, collectorVars, jobVars, verifyVars, writerVars>>

\* a mutant: the safety limit is tested with >=
generate_loop_early ==
    /\ npc = "loop"
    /\ LET base == namer.base_name
           ext  == get_extension(namer.algorithm)
           name == format_counter_name(base, counter, ext)
       IN  /\ probes' = probes + 1
           /\ IF ~exists(dir, base, ext, name)
              THEN /\ final_name' = name
                   /\ npc' = "done"
                   /\ counter' = counter
              ELSE /\ counter' = counter + 1
                   /\ IF counter + 1 >= MaxCounter
                      THEN final_name' = format_copy_name(base, ext) /\ npc' = "done"
                      ELSE final_name' = name /\ npc' = "loop"
    /\ UNCHANGED <<dir, namer>>
    /\ UNCHANGED <<cryptoVars, stateVars, encoderVars, collectorVars, jobVars, verifyVars, writerVars>>

\* one pass of the loop: probe base.counter.ext, break, or count up to the limit
generate_loop ==
    /\ npc = "loop"
    /\ LET base == namer.base_name
           ext  == get_extension(namer.algorithm)
           name == format_counter_name(base, counter, ext)
       IN  /\ probes' = probes + 1
           /\ IF ~exists(dir, base, ext, name)
              THEN /\ final_name' = name
                   /\ npc' = "done"
                   /\ counter' = counter
              ELSE /\ counter' = counter + 1
                   /\ IF counter + 1 > MaxCounter
                      THEN final_name' = format_copy_name(base, ext) /\ npc' = "done"
                      ELSE final_name' = name /\ npc' = "loop"
    /\ UNCHANGED <<dir, namer>>
    /\ UNCHANGED <<cryptoVars, stateVars, encoderVars, collectorVars, jobVars, verifyVars, writerVars>>

NextNamer ==
    \/ generate_first
    \/ generate_loop

SpecNamer == InitNamer /\ [][NextNamer]_vars

\* C8: generate returns base.ext when that name is free; otherwise base.k.ext
\* for the smallest k in 1..9999 whose name is free; and base.copy.ext when
\* base.ext and base.1.ext .. base.9999.ext all exist, after probing exactly
\* the counters 1..9999.
C8_GenerateName ==
    npc = "done" =>
        LET base == namer.base_name
            ext  == get_extension(namer.algorithm)
        IN  IF ~dir.plain
            THEN final_name = [base |-> base, middle |-> <<>>, ext |-> ext] /\ probes = 0
            ELSE IF \E k \in 1..9999 : ~CounterExists(dir, k)
            THEN \E k \in 1..9999 :
                    /\ final_name = [base |-> base, middle |-> Decimal(k), ext |-> ext]
                    /\ ~CounterExists(dir, k)
                    /\ \A j \in 1..(k - 1) : CounterExists(dir, j)
                    /\ probes = k
            ELSE final_name = [base |-> base, middle |-> str_copy, ext |-> ext]
                 /\ probes = 9999

C8_Witness ==
    /\ npc = "done"
    /\ dir.plain /\ dir.upto = 9999
    /\ final_name = [base |-> "backup", middle |-> str_copy, ext |-> "tar.zst"]
    /\ probes = 9999

\* C27: whatever the destination directory holds, the name generate returns
\* is not the name of a file that exists there, so that the encoder, which
\* creates the file of that name, never overwrites an archive.
C27_NameIsFree ==
    npc = "done" =>
        ~exists(dir, namer.base_name, get_extension(namer.algorithm), final_name)

(***************************************************************************)
(* The container encoders (compress.rs). A path is the sequence of its     *)
(* components, a component the bytes of a Unix file name; a String is the  *)
(* sequence of its Unicode scalar values. An entry name is the sequence of *)
(* bytes stored in the container. Lead bytes of three- and four-byte UTF-8 *)
(* sequences do not occur in the file names of the model.                  *)
(***************************************************************************)
ReplacementChar == 65533

\* the bytes of "a", "b", "é" (valid UTF-8), "a\xFF" and "a\xFE" (not UTF-8)
FileNames == {<<97>>, <<98>>, <<195, 169>>, <<97, 255>>, <<97, 254>>}

SourceRoot == <<<<115>>>>
OtherRoot == <<<<116>>>>

\* the paths WalkDir yields under the source, and one path outside of it
CollectedPaths ==
    {SourceRoot \o <<nm>> : nm \in FileNames}
        \cup {SourceRoot \o <<<<100>>, nm>> : nm \in {<<97>>, <<97, 255>>}}
        \cup {OtherRoot \o <<<<97>>>>}

RECURSIVE DistinctSeqs(_, _)
DistinctSeqs(S, n) ==
    IF n = 0 THEN {<<>>}
    ELSE LET shorter == DistinctSeqs(S, n - 1)
         IN  shorter \cup {Append(q, x) : q \in {r \in shorter : Len(r) = n - 1}, x \in S}

FileLists == {q \in DistinctSeqs(CollectedPaths, MaxFiles) :
                 \A i, j \in 1..Len(q) : i # j => q[i] # q[j]}

\* Path::strip_prefix
strip_prefix(path, base) ==
    IF Len(base) <= Len(path) /\ SubSeq(path, 1, Len(base)) = base
    THEN [ok |-> TRUE, rel |-> SubSeq(path, Len(base) + 1, Len(path))]
    ELSE [ok |-> FALSE, rel |-> <<>>]

\* the bytes of a relative path: its components joined by "/"
RECURSIVE PathBytes(_)
PathBytes(rel) ==
    IF rel = <<>> THEN <<>>
    ELSE IF Len(rel) = 1 THEN rel[1]
    ELSE rel[1] \o <<47>> \o PathBytes(Tail(rel))

\* String::from_utf8_lossy: a byte that starts no valid sequence becomes U+FFFD
RECURSIVE from_utf8_lossy(_)
from_utf8_lossy(b) ==
    IF b = <<>> THEN <<>>
    ELSE IF b[1] < 128 THEN <<b[1]>> \o from_utf8_lossy(Tail(b))
    ELSE IF b[1] \in 194..223 /\ Len(b) >= 2 /\ b[2] \in 128..191
    THEN <<(b[1] - 192) * 64 + (b[2] - 128)>> \o from_utf8_lossy(SubSeq(b, 3, Len(b)))
    ELSE <<ReplacementChar>> \o from_utf8_lossy(Tail(b))

\* relative.to_string_lossy().to_string()
to_string_lossy(rel) == from_utf8_lossy(PathBytes(rel))

\* the UTF-8 bytes of a String
RECURSIVE as_bytes(_)
as_bytes(str) ==
    IF str = <<>> THEN <<>>
    ELSE LET c == str[1]
             enc == IF c < 128 THEN <<c>>
                    ELSE IF c < 2048 THEN <<192 + (c \div 64), 128 + (c % 64)>>
                    ELSE <<224 + (c \div 4096), 128 + ((c \div 64) % 64), 128 + (c % 64)>>
         IN  enc \o as_bytes(Tail(str))

\* tar::Header::set_path on Unix: the bytes of the path as they are
tar_entry_name(rel) == PathBytes(rel)

\* zip::ZipWriter::start_file: the bytes of the name String
zip_entry_name(name) == as_bytes(name)

Algorithms == {"tar.gz", "gz", "tar.zst", "zst", "zip", "7z"}

InitEncoder ==
    /\ \E alg \in Algorithms : archiver = [source |-> SourceRoot, algorithm |-> alg]
    /\ files \in FileLists
    /\ epc = "start"
    /\ idx = 0
    /\ file_list = <<>>
    /\ entries = <<>>
    /\ eres = "none"
    /\ archive_file = FALSE
    /\ IdleCrypto /\ IdleState /\ IdleNamer /\ IdleCollector /\ IdleJob /\ IdleVerify
    /\ IdleWriters

\* the archive file is created before the kind is looked at
compress_create_first ==
    /\ epc = "start"
    /\ IF archiver.algorithm \in {"tar.gz", "gz"} THEN epc' = "tar_gz_create" /\ eres' = eres
       ELSE IF archiver.algorithm \in {"tar.zst", "zst"} THEN epc' = "tar_zst_create" /\ eres' = eres
       ELSE IF archiver.algorithm = "zip" THEN epc' = "zip_create" /\ eres' = eres
       ELSE epc' = "done" /\ eres' = "err"
    /\ idx' = 1
    /\ archive_file' = TRUE
    /\ UNCHANGED <<archiver, files, file_list, entries>>
    /\ UNCHANGED <<cryptoVars, stateVars, namerVars, collectorVars, jobVars, verifyVars, writerVars>>

\* compress: match self.algorithm.as_str()
compress ==
    /\ epc = "start"
    /\ IF archiver.algorithm \in {"tar.gz", "gz"} THEN epc' = "tar_gz_create" /\ eres' = eres
       ELSE IF archiver.algorithm \in {"tar.zst", "zst"} THEN epc' = "tar_zst_create" /\ eres' = eres
       ELSE IF archiver.algorithm = "zip" THEN epc' = "zip_create" /\ eres' = eres
       ELSE epc' = "done" /\ eres' = "err"
    /\ idx' = 1
    /\ UNCHANGED <<archiver, files, file_list, entries, archive_file>>
    /\ UNCHANGED <<cryptoVars, stateVars, namerVars, collectorVars, jobVars, verifyVars, writerVars>>

\* File::create(archive_path)? at the head of compress_tar_gz
compress_tar_gz_create ==
    /\ epc = "tar_gz_create"
    /\ \E io_ok \in BOOLEAN :
          IF io_ok
          THEN archive_file' = TRUE /\ epc' = "tar_gz" /\ eres' = eres
          ELSE archive_file' = archive_file /\ epc' = "done" /\ eres' = "err"
    /\ UNCHANGED <<archiver, files, idx, file_list, entries>>
    /\ UNCHANGED <<cryptoVars, stateVars, namerVars, collectorVars, jobVars, verifyVars, writerVars>>

\* one pass of the tar.gz loop: strip_prefix?, append_path_with_name?, file_list.push
compress_tar_gz_append ==
    /\ epc = "tar_gz"
    /\ idx <= Len(files)
    /\ LET relative == strip_prefix(files[idx], archiver.source)
       IN  \E io_ok \in BOOLEAN :
             IF relative.ok /\ io_ok
             THEN /\ entries' = Append(entries, tar_entry_name(relative.rel))
                  /\ file_list' = Append(file_list, to_string_lossy(relative.rel))
                  /\ idx' = idx + 1
                  /\ UNCHANGED <<epc, eres>>
             ELSE /\ epc' = "done"
                  /\ eres' = "err"
                  /\ UNCHANGED <<entries, file_list, idx>>
    /\ UNCHANGED <<archiver, files, archive_file>>
    /\ UNCHANGED <<cryptoVars, stateVars, namerVars, collectorVars, jobVars, verifyVars, writerVars>>

\* tar.finish()?; Ok(file_list)
compress_tar_gz_finish ==
    /\ epc = "tar_gz"
    /\ idx > Len(files)
    /\ epc' = "done"
    /\ \E io_ok \in BOOLEAN : eres' = IF io_ok THEN "ok" ELSE "err"
    /\ UNCHANGED <<archiver, files, idx, file_list, entries, archive_file>>
    /\ UNCHANGED <<cryptoVars, stateVars, namerVars, collectorVars, jobVars, verifyVars, writerVars>>

\* File::create(archive_path)? at the head of compress_tar_zst
compress_tar_zst_create ==
    /\ epc = "tar_zst_create"
    /\ \E io_ok \in BOOLEAN :
          IF io_ok
          THEN archive_file' = TRUE /\ epc' = "tar_zst" /\ eres' = eres
          ELSE archive_file' = archive_file /\ epc' = "done" /\ eres' = "err"
    /\ UNCHANGED <<archiver, files, idx, file_list, entries>>
    /\ UNCHANGED <<cryptoVars, stateVars, namerVars, collectorVars, jobVars, verifyVars, writerVars>>

\* one pass of the tar.zst loop: strip_prefix?, append_path_with_name?, file_list.push
compress_tar_zst_append ==
    /\ epc = "tar_zst"
    /\ idx <= Len(files)
    /\ LET relative == strip_prefix(files[idx], archiver.source)
       IN  \E io_ok \in BOOLEAN :
             IF relative.ok /\ io_ok
             THEN /\ entries' = Append(entries, tar_entry_name(relative.rel))
                  /\ file_list' = Append(file_list, to_string_lossy(relative.rel))
                  /\ idx' = idx + 1
                  /\ UNCHANGED <<epc, eres>>
             ELSE /\ epc' = "done"
                  /\ eres' = "err"
                  /\ UNCHANGED <<entries, file_list, idx>>
    /\ UNCHANGED <<archiver, files, archive_file>>
    /\ UNCHANGED <<cryptoVars, stateVars, namerVars, collectorVars, jobVars, verifyVars, writerVars>>

\* tar.finish()?; Ok(file_list)
compress_tar_zst_finish ==
    /\ epc = "tar_zst"
    /\ idx > Len(files)
    /\ epc' = "done"
    /\ \E io_ok \in BOOLEAN : eres' = IF io_ok THEN "ok" ELSE "err"
    /\ UNCHANGED <<archiver, files, idx, file_list, entries, archive_file>>
    /\ UNCHANGED <<cryptoVars, stateVars, namerVars, collectorVars, jobVars, verifyVars, writerVars>>

\* File::create(archive_path)? at the head of compress_zip
compress_zip_create ==
    /\ epc = "zip_create"
    /\ \E io_ok \in BOOLEAN :
          IF io_ok
          THEN archive_file' = TRUE /\ epc' = "zip" /\ eres' = eres
          ELSE archive_file' = archive_file /\ epc' = "done" /\ eres' = "err"
    /\ UNCHANGED <<archiver, files, idx, file_list, entries>>
    /\ UNCHANGED <<cryptoVars, stateVars, namerVars, collectorVars, jobVars, verifyVars, writerVars>>

\* one pass of the zip loop: strip_prefix?, start_file(&name)?, copy, file_list.push
compress_zip_append ==
    /\ epc = "zip"
    /\ idx <= Len(files)
    /\ LET relative == strip_prefix(files[idx], archiver.source)
           name == to_string_lossy(relative.rel)
           duplicate == \E i \in 1..Len(entries) : entries[i] = zip_entry_name(name)
       IN  \E io_ok \in BOOLEAN :
             IF relative.ok /\ ~duplicate /\ io_ok
             THEN /\ entries' = Append(entries, zip_entry_name(name))
                  /\ file_list' = Append(file_list, name)
                  /\ idx' = idx + 1
                  /\ UNCHANGED <<epc, eres>>
             ELSE /\ epc' = "done"
                  /\ eres' = "err"
                  /\ UNCHANGED <<entries, file_list, idx>>
    /\ UNCHANGED <<archiver, files, archive_file>>
    /\ UNCHANGED <<cryptoVars, stateVars, namerVars, collectorVars, jobVars, verifyVars, writerVars>>

\* zip.finish()?; Ok(file_list)
compress_zip_finish ==
    /\ epc = "zip"
    /\ idx > Len(files)
    /\ epc' = "done"
    /\ \E io_ok \in BOOLEAN : eres' = IF io_ok THEN "ok" ELSE "err"
    /\ UNCHANGED <<archiver, files, idx, file_list, entries, archive_file>>
    /\ UNCHANGED <<cryptoVars, stateVars, namerVars, collectorVars, jobVars, verifyVars, writerVars>>

NextEncoder ==
    \/ compress
    \/ compress_tar_gz_create
    \/ compress_tar_zst_create
    \/ compress_zip_create
    \/ compress_tar_gz_append
    \/ compress_tar_gz_finish
    \/ compress_tar_zst_append
    \/ compress_tar_zst_finish
    \/ compress_zip_append
    \/ compress_zip_finish

SpecEncoder == InitEncoder /\ [][NextEncoder]_vars

\* C5: for each of the three container kinds and every list of collected
\* files, the list an encoder returns has the length and order of the list it
\* was given, each element is the input path with the source root stripped,
\* and the list equals the entry names written into the container, in write
\* order.
C5_ListEqualsEntries ==
    eres = "ok" =>
        /\ Len(file_list) = Len(files)
        /\ \A i \in 1..Len(file_list) :
              /\ strip_prefix(files[i], archiver.source).ok
              /\ as_bytes(file_list[i]) = PathBytes(strip_prefix(files[i], archiver.source).rel)
        /\ Len(entries) = Len(file_list)
        /\ \A i \in 1..Len(file_list) : as_bytes(file_list[i]) = entries[i]

\* C14: compress called with a kind string that is none of the supported
\* kinds returns an error, and no file exists at the archive path afterwards
\* that was not there before.
C14_UnsupportedKindNoFile ==
    (epc # "off" /\ archiver.algorithm \notin {"tar.gz", "gz", "tar.zst", "zst", "zip"}) =>
        /\ ~archive_file
        /\ epc = "done" => eres = "err"

C14_Witness ==
    /\ epc = "done" /\ eres = "err"
    /\ archiver.algorithm = "7z"
    /\ Len(files) > 0

(***************************************************************************)
(* Archiver::compress, first part (compress.rs:65-108): the files are      *)
(* collected by collect_files_parallel and, when sort_by_size is set,      *)
(* ordered by size. WalkDir is a sequential iterator; par_bridge lets the  *)
(* workers of the pool pull its entries one at a time, each worker keeping *)
(* what it produced, and collect joins the workers' pieces. compress is    *)
(* called twice on the same tree so that two results can be compared.      *)
(***************************************************************************)
\* the i-th name in the source directory: "a", "b", "c", ...
EntryPath(i) == SourceRoot \o <<<<96 + i>>>>

\* what an entry is: a directory, or a regular file of some size (KB);
\* `readable` tells whether fs::metadata succeeds on it when the files are
\* sorted (a file may have been removed or locked away since the walk)
EntryKinds == {[is_file |-> FALSE, len |-> 0, readable |-> TRUE]} \cup
              {[is_file |-> TRUE, len |-> n, readable |-> TRUE] : n \in {1, 10, 100}} \cup
              {[is_file |-> TRUE, len |-> 10, readable |-> FALSE]}

SourceTrees ==
    UNION {[1..n -> EntryKinds] : n \in 0..MaxEntries}

\* num_cpus::get() or self.num_threads
ThreadCounts == {1, 2}

InitCollector ==
    /\ source_tree \in SourceTrees
    /\ sort_by_size \in BOOLEAN
    /\ num_threads = 0
    /\ walk = 0
    /\ parts = <<>>
    /\ found = <<>>
    /\ handed = <<>>
    /\ cpc = "call"
    /\ runs = <<>>
    /\ IdleCrypto /\ IdleState /\ IdleNamer /\ IdleEncoder /\ IdleJob /\ IdleVerify
    /\ IdleWriters

\* compress is entered: the pool is sized, collect_files_parallel starts
compress_call ==
    /\ cpc \in {"call", "done"}
    /\ Len(runs) < 2
    /\ \E t \in ThreadCounts : num_threads' = t /\ parts' = [w \in 1..t |-> <<>>]
    /\ walk' = 1
    /\ found' = <<>>
    /\ handed' = <<>>
    /\ cpc' = "collect"
    /\ UNCHANGED <<source_tree, sort_by_size, runs>>
    /\ UNCHANGED <<cryptoVars, stateVars, namerVars, encoderVars, jobVars, verifyVars, writerVars>>

\* a worker pulls the next entry from the bridge: filter is_file, map to path
collect_files_take ==
    /\ cpc = "collect"
    /\ walk <= Len(source_tree)
    /\ \E w \in 1..num_threads :
          parts' = IF source_tree[walk].is_file
                   THEN [parts EXCEPT ![w] = Append(@, EntryPath(walk))]
                   ELSE parts
    /\ walk' = walk + 1
    /\ UNCHANGED <<source_tree, sort_by_size, num_threads, found, handed, cpc, runs>>
    /\ UNCHANGED <<cryptoVars, stateVars, namerVars, encoderVars, jobVars, verifyVars, writerVars>>

\* the pieces of the workers, one after the other
RECURSIVE Joined(_, _)
Joined(ps, n) == IF n = 0 THEN <<>> ELSE Joined(ps, n - 1) \o ps[n]

\* .collect(): the iterator is exhausted, the pieces are joined
collect_files_collect ==
    /\ cpc = "collect"
    /\ walk > Len(source_tree)
    /\ found' = Joined(parts, num_threads)
    /\ cpc' = "sort"
    /\ UNCHANGED <<source_tree, sort_by_size, num_threads, walk, parts, handed, runs>>
    /\ UNCHANGED <<cryptoVars, stateVars, namerVars, encoderVars, jobVars, verifyVars, writerVars>>

\* meta.len() for a file of the tree
SizeOf(path) ==
    LET i == CHOOSE k \in 1..Len(source_tree) : EntryPath(k) = path
    IN  source_tree[i].len

\* fs::metadata(path).ok()
metadata_ok(path) ==
    LET i == CHOOSE k \in 1..Len(source_tree) : EntryPath(k) = path
    IN  source_tree[i].readable

\* files.par_iter().filter_map(|path| fs::metadata(path).ok().map(..)).collect()
RECURSIVE files_with_sizes_of(_)
files_with_sizes_of(paths) ==
    IF paths = <<>> THEN <<>>
    ELSE (IF metadata_ok(paths[1]) THEN <<<<paths[1], SizeOf(paths[1])>>>> ELSE <<>>)
            \o files_with_sizes_of(Tail(paths))

\* the comparator with its operands the other way round
by_size_ascending(a, b) == a[2] <= b[2]

\* |a, b| b.1.cmp(&a.1) is not Greater: a may stay before b
by_size_descending(a, b) == b[2] <= a[2]

\* par_sort_by: a stable sort; an element goes behind everything that may
\* stay before it
RECURSIVE par_sort_by(_)
par_sort_by(q) ==
    IF Len(q) <= 1 THEN q
    ELSE LET rest == par_sort_by(SubSeq(q, 1, Len(q) - 1))
             x == q[Len(q)]
             before == {i \in 1..Len(rest) : by_size_descending(rest[i], x)}
             k == Cardinality(before)
         IN  SubSeq(rest, 1, k) \o <<x>> \o SubSeq(rest, k + 1, Len(rest))

\* if self.sort_by_size { files_with_sizes ..; par_sort_by; files = .. }
compress_sort ==
    /\ cpc = "sort"
    /\ LET files_with_sizes == files_with_sizes_of(found)
           ordered == par_sort_by(files_with_sizes)
       IN  handed' = IF sort_by_size
                     THEN [i \in 1..Len(ordered) |-> ordered[i][1]]
                     ELSE found
    /\ runs' = Append(runs, found)
    /\ cpc' = "done"
    /\ UNCHANGED <<source_tree, sort_by_size, num_threads, walk, parts, found>>
    /\ UNCHANGED <<cryptoVars, stateVars, namerVars, encoderVars, jobVars, verifyVars, writerVars>>

NextCollector ==
    \/ compress_call
    \/ collect_files_take
    \/ collect_files_collect
    \/ compress_sort

SpecCollector == InitCollector /\ [][NextCollector]_vars

\* C11: with size sorting enabled, the files handed to the encoder are the
\* collected files in non-increasing order of size, and two files of equal
\* size keep the order in which the collector listed them; sizes 10, 1, 100
\* are handed over as 100, 10, 1.
C11_SortedBySizeStable ==
    (cpc = "done" /\ sort_by_size) =>
        /\ \A i, j \in 1..Len(handed) :
              i < j =>
                 /\ SizeOf(handed[i]) >= SizeOf(handed[j])
                 /\ SizeOf(handed[i]) = SizeOf(handed[j]) =>
                       \E a, b \in 1..Len(found) :
                          a < b /\ found[a] = handed[i] /\ found[b] = handed[j]
        /\ (num_threads = 1 /\ Len(source_tree) = 3
               /\ (\A k \in 1..3 : source_tree[k].is_file /\ source_tree[k].readable)
               /\ source_tree[1].len = 10 /\ source_tree[2].len = 1
               /\ source_tree[3].len = 100) =>
              handed = <<EntryPath(3), EntryPath(1), EntryPath(2)>>

C11_Witness ==
    /\ cpc = "done" /\ sort_by_size
    /\ Len(handed) = 3
    /\ SizeOf(handed[1]) = 10 /\ SizeOf(handed[2]) = 10 /\ SizeOf(handed[3]) = 1
    /\ found # handed

\* C12: for an unchanged source tree the list the collector returns is the
\* same on every call, whatever the number of workers and however their work
\* interleaves.
C12_CollectorDeterministic ==
    \A i, j \in 1..Len(runs) : runs[i] = runs[j]

\* C28: size sorting only reorders: the list handed to the encoder is a
\* permutation of the list the collector returned (the same files, each
\* once), also when the size of a collected file cannot be read.
C28_SortIsPermutation ==
    (cpc = "done" /\ sort_by_size) =>
        /\ Len(handed) = Len(found)
        /\ \A i \in 1..Len(found) :
              Cardinality({k \in 1..Len(handed) : handed[k] = found[i]}) = 1

(***************************************************************************)
(* Cli::run_backup (cli.rs:258-486) from the validation of the compression *)
(* level to the stored metadata. The container kind is already normalised  *)
(* (cli.rs:245-256); the prompts are answered by job.answer and            *)
(* job.entered. Archiver::compress, the checksum engine and                *)
(* TarEncryptor::encrypt_file appear by their outcome: they succeed or     *)
(* return Err.                                                             *)
(***************************************************************************)
SomeLevel(v) == [some |-> TRUE, value |-> v]

SomePassword(v) == [some |-> TRUE, value |-> v]

Kinds == {"tar.gz", "tar.zst", "zip"}

\* --level and Config.compression_level are i32 values
Levels == {-1, 0, 9, 22, 23}

LevelOptions == {NoLevel} \cup {SomeLevel(v) : v \in Levels}

str_sha3 == <<115, 104, 97, 51>>
str_sha3_256 == <<115, 104, 97, 51, 45, 50, 53, 54>>
str_SHA3 == <<83, 72, 65, 51>>
str_SHA3_256 == <<83, 72, 65, 51, 45, 50, 53, 54>>
str_md5 == <<109, 100, 53>>

\* the names a user or a configuration file may ask for
ChecksumNames == {str_sha256, str_SHA3, str_blake3, str_md5}

ChecksumLists == SeqsUpTo(ChecksumNames, MaxAlgos) \ {<<>>}

\* str::to_lowercase on ASCII
to_lowercase(str) ==
    [i \in 1..Len(str) |-> IF str[i] \in 65..90 THEN str[i] + 32 ELSE str[i]]

\* HashAlgorithm::from_str
hash_from_str(str) ==
    LET lower == to_lowercase(str) IN
    IF lower = str_sha256 \/ lower = str_sha_256 THEN [ok |-> TRUE, value |-> "Sha256"]
    ELSE IF lower = str_sha3 \/ lower = str_sha3_256 THEN [ok |-> TRUE, value |-> "Sha3_256"]
    ELSE IF lower = str_blake3 THEN [ok |-> TRUE, value |-> "Blake3"]
    ELSE [ok |-> FALSE, value |-> ""]

\* HashAlgorithm::name
hash_name(algorithm) ==
    CASE algorithm = "Sha256"   -> str_SHA_256
      [] algorithm = "Sha3_256" -> str_SHA3_256
      [] algorithm = "Blake3"   -> str_BLAKE3

\* the seed that tells the digest functions apart
DigestSeed(algorithm) ==
    CASE algorithm = "Sha256"   -> 3
      [] algorithm = "Sha3_256" -> 5
      [] algorithm = "Blake3"   -> 7

\* the digest of a file's bytes under an algorithm, as a hex string
DigestOf(algorithm, data) == ToString(Absorb(DigestSeed(algorithm), data))

\* .iter().filter_map(|s| HashAlgorithm::from_str(s).ok()).collect()
RECURSIVE filter_map_from_str(_)
filter_map_from_str(names) ==
    IF names = <<>> THEN <<>>
    ELSE LET parsed == hash_from_str(names[1])
         IN  (IF parsed.ok THEN <<parsed.value>> ELSE <<>>) \o filter_map_from_str(Tail(names))

\* Checker::generate_multiple_checksums and the loop that fills checksums_map
RECURSIVE generate_multiple_checksums(_, _)
generate_multiple_checksums(algos, data) ==
    IF algos = <<>> THEN EmptyMap
    ELSE MapInsert(generate_multiple_checksums(SubSeq(algos, 1, Len(algos) - 1), data),
                   hash_name(algos[Len(algos)]), DigestOf(algos[Len(algos)], data))

\* for (algo_name, hash) in checksums_map { metadata.add_checksum(&algo_name, hash) }
RECURSIVE add_checksums(_, _, _)
add_checksums(m, map, names) ==
    IF names = {} THEN m
    ELSE LET k == CHOOSE x \in names : TRUE
         IN  add_checksums(add_checksum_to(m, k, map[k]), map, names \ {k})

Jobs ==
    {[algo |-> k, level |-> l, config_level |-> cl, encrypt |-> e,
      encrypt_by_default |-> ed, answer |-> an, entered |-> <<112>>,
      checksums |-> cs, default_hash_algorithm |-> dh] :
        k \in Kinds, l \in LevelOptions, cl \in LevelOptions, e \in BOOLEAN,
        ed \in BOOLEAN, an \in BOOLEAN,
        cs \in {[some |-> FALSE, value |-> <<>>]} \cup
               {[some |-> TRUE, value |-> q] : q \in ChecksumLists},
        dh \in {<<>>, str_sha256, str_md5}}

InitBackup ==
    /\ job \in {j \in Jobs : /\ j.level.some => j.config_level = NoLevel
                             /\ j.checksums.some => j.default_hash_algorithm = str_sha256
                             /\ j.encrypt => ~j.encrypt_by_default}
    /\ jpc = "level"
    /\ compression_level = NoLevel
    /\ should_encrypt = FALSE
    /\ job_password = NoPassword
    /\ given = [compression_level |-> NoLevel, password |-> NoPassword]
    /\ encoder_level = 0
    /\ algorithms = <<>>
    /\ checksums_map = EmptyMap
    /\ enveloped = FALSE
    /\ job_metadata = NoMetadata
    /\ jres = "none"
    /\ IdleCrypto /\ IdleState /\ IdleNamer /\ IdleEncoder /\ IdleCollector /\ IdleVerify
    /\ IdleWriters

\* the source trees of the jobs whose files are followed: two files, one
\* file that is gone when it is looked at again, and both
PipelineTrees ==
    {<<[is_file |-> TRUE, len |-> 1, readable |-> TRUE],
       [is_file |-> TRUE, len |-> 10, readable |-> TRUE]>>,
     <<[is_file |-> TRUE, len |-> 10, readable |-> FALSE]>>,
     <<[is_file |-> FALSE, len |-> 0, readable |-> TRUE],
       [is_file |-> TRUE, len |-> 10, readable |-> FALSE],
       [is_file |-> TRUE, len |-> 100, readable |-> TRUE]>>}

\* the state documents a job may find
PipelineDocuments ==
    {[exists |-> FALSE, valid |-> TRUE, archives |-> EmptyMap],
     [exists |-> TRUE, valid |-> FALSE, archives |-> EmptyMap]}
      \cup {[exists |-> TRUE, valid |-> TRUE,
             archives |-> [n \in {nm} |-> CurrentRecord(nm, "t2", {str_SHA_256}, "h1")]] :
               nm \in ArchiveNames}

\* the same job with its level left to the default: what varies is the source
\* tree, the size sorting, the state document found and a "<path>.bak" left
\* by an earlier run
InitPipeline ==
    /\ job \in {j \in Jobs : /\ j.level = NoLevel /\ j.config_level = NoLevel
                             /\ ~j.encrypt_by_default /\ j.answer
                             /\ j.default_hash_algorithm = str_sha256
                             /\ j.checksums.some => j.checksums.value \in
                                   {<<str_blake3>>, <<str_md5>>}}
    /\ jpc = "level"
    /\ compression_level = NoLevel
    /\ should_encrypt = FALSE
    /\ job_password = NoPassword
    /\ given = [compression_level |-> NoLevel, password |-> NoPassword]
    /\ encoder_level = 0
    /\ algorithms = <<>>
    /\ checksums_map = EmptyMap
    /\ enveloped = FALSE
    /\ job_metadata = NoMetadata
    /\ jres = "none"
    /\ source_tree \in PipelineTrees
    /\ sort_by_size \in BOOLEAN
    /\ num_threads = 0 /\ walk = 0 /\ parts = <<>> /\ found = <<>> /\ handed = <<>>
    /\ cpc = "off" /\ runs = <<>>
    /\ disk \in PipelineDocuments
    /\ tracker = [loaded |-> FALSE, archives |-> EmptyMap]
    /\ metadata = NoMetadata /\ adds = 0 /\ spc = "off" /\ prev = EmptyMap
    /\ order = <<>> /\ listed = <<>>
    /\ \E bak \in {NoFile, FileOf(<<9>>)} :
          fs = [p \in Paths |-> IF p = backup_path THEN bak ELSE NoFile]
    /\ pc = "off" /\ self = NoSelf /\ loc = NoLoc /\ result = "none" /\ hist = NoHist
    /\ IdleNamer /\ IdleEncoder /\ IdleVerify
    /\ IdleWriters

\* COMPRESSION LEVEL VALIDATION
run_backup_level ==
    /\ jpc = "level"
    /\ compression_level' =
          IF job.level.some
          THEN LET lvl == job.level.value IN
               IF job.algo \in {"tar.gz", "zip"} /\ (lvl < 0 \/ lvl > 9) THEN NoLevel
               ELSE IF job.algo = "tar.zst" /\ (lvl < 1 \/ lvl > 22) THEN NoLevel
               ELSE SomeLevel(lvl)
          ELSE job.config_level
    /\ jpc' = "encryption"
    /\ UNCHANGED <<job, should_encrypt, job_password, given, encoder_level, algorithms,
                   checksums_map, enveloped, job_metadata, jres>>
    /\ UNCHANGED <<cryptoVars, stateVars, namerVars, encoderVars, collectorVars, verifyVars, writerVars>>

\* ENCRYPTION SETUP
run_backup_encryption ==
    /\ jpc = "encryption"
    /\ LET wanted == IF job.encrypt \/ job.encrypt_by_default
                     THEN IF job.algo = "zip"
                          THEN (IF job.encrypt THEN TRUE ELSE job.answer)
                          ELSE job.answer
                     ELSE FALSE
       IN  /\ should_encrypt' = wanted
           /\ job_password' = IF wanted THEN SomePassword(job.entered) ELSE NoPassword
    /\ jpc' = "compress"
    /\ UNCHANGED <<job, compression_level, given, encoder_level, algorithms,
                   checksums_map, enveloped, job_metadata, jres>>
    /\ UNCHANGED <<cryptoVars, stateVars, namerVars, encoderVars, collectorVars, verifyVars, writerVars>>

\* let level = self.compression_level.unwrap_or(..) in the encoder of the kind
level_in_encoder(kind, level) ==
    CASE kind = "tar.gz"  -> (IF level.some THEN level.value ELSE 6)
      [] kind = "tar.zst" -> (IF level.some THEN level.value ELSE 3)
      [] kind = "zip"     -> (IF level.some THEN level.value ELSE 6)

\* the password is handed to the Archiver whatever the kind
password_for_archiver_any(kind, pw) == pw

\* if algo == "zip" && password.is_some() { archiver.with_password(..) }
password_for_archiver(kind, pw) ==
    IF kind = "zip" /\ pw.some THEN pw ELSE NoPassword

\* collect_files_parallel: the regular files of the tree in the order the
\* workers happened to produce them
Collected(tree) ==
    IterationOrders({EntryPath(i) : i \in {k \in 1..Len(tree) : tree[k].is_file}})

\* `files` after the size sorting of Archiver::compress
Ordered(paths) ==
    IF sort_by_size
    THEN LET ordered == par_sort_by(files_with_sizes_of(paths))
         IN  [i \in 1..Len(ordered) |-> ordered[i][1]]
    ELSE paths

\* the files the encoder's loop appends before append_path_with_name (or
\* File::open for zip) fails on one that cannot be read
RECURSIVE Appended(_)
Appended(paths) ==
    IF paths = <<>> \/ ~metadata_ok(paths[1]) THEN <<>>
    ELSE <<paths[1]>> \o Appended(Tail(paths))

KindByte(kind) ==
    CASE kind = "tar.gz" -> 31 [] kind = "tar.zst" -> 40 [] kind = "zip" -> 80

\* the bytes of the container: the mark of its kind, then for every entry
\* its name and the size of its content
RECURSIVE ContainerBytes(_, _)
ContainerBytes(kind, paths) ==
    IF paths = <<>> THEN <<KindByte(kind)>>
    ELSE ContainerBytes(kind, SubSeq(paths, 1, Len(paths) - 1))
            \o PathBytes(strip_prefix(paths[Len(paths)], SourceRoot).rel)
            \o <<SizeOf(paths[Len(paths)])>>

\* "Proceed with backup?", CREATE ARCHIVER WITH ALL OPTIONS, archiver.compress()?
run_backup_compress ==
    /\ jpc = "compress"
    /\ \E proceed \in BOOLEAN, io_ok \in BOOLEAN, collected \in Collected(source_tree) :
          IF ~proceed
          THEN /\ jpc' = "done" /\ jres' = "cancelled"
               /\ UNCHANGED <<given, encoder_level, found, handed, file_list, fs>>
          ELSE /\ given' = [compression_level |-> compression_level,
                            password |-> password_for_archiver(job.algo, job_password)]
               /\ encoder_level' = level_in_encoder(job.algo, compression_level)
               /\ IF ~io_ok
                  THEN /\ jpc' = "done" /\ jres' = "err"
                       /\ UNCHANGED <<found, handed, file_list, fs>>
                  ELSE LET ordered == Ordered(collected)
                           appended == Appended(ordered)
                       IN  /\ found' = collected
                           /\ handed' = ordered
                           /\ file_list' =
                                 [i \in 1..Len(appended) |->
                                     to_string_lossy(strip_prefix(appended[i], SourceRoot).rel)]
                           /\ fs' = [fs EXCEPT ![file_path] =
                                        FileOf(ContainerBytes(job.algo, appended))]
                           /\ IF Len(appended) = Len(ordered)
                              THEN jpc' = "checksums" /\ jres' = jres
                              ELSE jpc' = "done" /\ jres' = "err"
    /\ UNCHANGED <<job, compression_level, should_encrypt, job_password, algorithms,
                   checksums_map, enveloped, job_metadata>>
    /\ UNCHANGED <<pc, self, loc, result, hist>>
    /\ UNCHANGED <<archiver, files, epc, idx, entries, eres, archive_file>>
    /\ UNCHANGED <<source_tree, sort_by_size, num_threads, walk, parts, cpc, runs>>
    /\ UNCHANGED <<stateVars, namerVars, verifyVars, writerVars>>

\* MULTI-CHECKSUM GENERATION
run_backup_checksums ==
    /\ jpc = "checksums"
    /\ LET checksum_algos == IF job.checksums.some THEN job.checksums.value
                             ELSE IF job.default_hash_algorithm # <<>>
                                  THEN <<job.default_hash_algorithm>>
                                  ELSE <<str_sha256>>
           parsed == filter_map_from_str(checksum_algos)
       IN  \E io_ok \in BOOLEAN :
              IF io_ok
              THEN /\ algorithms' = parsed
                   /\ checksums_map' = generate_multiple_checksums(parsed, fs[file_path].data)
                   /\ jpc' = "post_encrypt" /\ jres' = jres
              ELSE /\ algorithms' = parsed
                   /\ checksums_map' = checksums_map
                   /\ jpc' = "done" /\ jres' = "err"
    /\ UNCHANGED <<job, compression_level, should_encrypt, job_password, given, encoder_level,
                   enveloped, job_metadata>>
    /\ UNCHANGED <<cryptoVars, stateVars, namerVars, encoderVars, collectorVars, verifyVars, writerVars>>

\* TarEncryptor::encrypt_file from File::create(&encrypted_path) to the
\* second rename
TarEncryptFile(f, pw, st, nc) ==
    LET written == [f EXCEPT ![encrypted_path] =
                       FileOf(AgeEncrypt(pw, st, nc, f[file_path].data))]
    IN  Rename(Rename(written, file_path, backup_path), encrypted_path, file_path)

\* POST-COMPRESSION ENCRYPTION (TAR formats)
run_backup_post_encrypt ==
    /\ jpc = "post_encrypt"
    /\ IF should_encrypt /\ job_password.some /\ job.algo # "zip"
       THEN \E io_ok \in BOOLEAN, st \in Salts, nc \in Nonces :
               IF io_ok
               THEN /\ fs' = TarEncryptFile(fs, job_password.value, st, nc)
                    /\ enveloped' = TRUE /\ jpc' = "verify" /\ jres' = jres
               ELSE /\ fs' = fs
                    /\ enveloped' = enveloped /\ jpc' = "done" /\ jres' = "err"
       ELSE fs' = fs /\ enveloped' = enveloped /\ jpc' = "verify" /\ jres' = jres
    /\ UNCHANGED <<job, compression_level, should_encrypt, job_password, given, encoder_level,
                   algorithms, checksums_map, job_metadata>>
    /\ UNCHANGED <<pc, self, loc, result, hist>>
    /\ UNCHANGED <<stateVars, namerVars, encoderVars, collectorVars, verifyVars, writerVars>>

\* a mutant: the record is stored before the archive is verified
run_backup_verify_recorded ==
    /\ jpc = "verify"
    /\ disk' = Document(MapInsert(Loaded(disk).archives, "a", BaseRecord("a", "t2")))
    /\ \E io_ok \in BOOLEAN :
          IF io_ok THEN jpc' = "save" /\ jres' = jres
                   ELSE jpc' = "done" /\ jres' = "err"
    /\ UNCHANGED <<job, compression_level, should_encrypt, job_password, given, encoder_level,
                   algorithms, checksums_map, enveloped, job_metadata>>
    /\ UNCHANGED <<tracker, metadata, adds, spc, prev, order, listed>>
    /\ UNCHANGED <<cryptoVars, namerVars, encoderVars, collectorVars, verifyVars, writerVars>>

\* VERIFY IF ENABLED, REMOTE UPLOAD
run_backup_verify ==
    /\ jpc = "verify"
    /\ \E io_ok \in BOOLEAN :
          IF io_ok THEN jpc' = "save" /\ jres' = jres
                   ELSE jpc' = "done" /\ jres' = "err"
    /\ UNCHANGED <<job, compression_level, should_encrypt, job_password, given, encoder_level,
                   algorithms, checksums_map, enveloped, job_metadata>>
    /\ UNCHANGED <<cryptoVars, stateVars, namerVars, encoderVars, collectorVars, verifyVars, writerVars>>

\* SAVE METADATA: fs::metadata(&archive_path)?, ArchiveMetadata { .. },
\* add_checksum, StateTracker::load()?, add_archive, save()?
run_backup_save ==
    /\ jpc = "save"
    /\ \E io_ok \in BOOLEAN :
          LET built == add_checksums(
                          [NoMetadata EXCEPT !.name = "a", !.created_at = "t2",
                                             !.algorithm = job.algo,
                                             !.size_bytes = Len(fs[file_path].data),
                                             !.file_count = Len(file_list),
                                             !.encrypted = should_encrypt /\ job_password.some,
                                             !.contents = file_list],
                          checksums_map, DOMAIN checksums_map)
              state == Loaded(disk)
          IN  IF io_ok /\ state.loaded
              THEN /\ job_metadata' = built
                   /\ prev' = state.archives
                   /\ tracker' = [state EXCEPT !.archives = MapInsert(@, built.name, built)]
                   /\ order' \in IterationOrders(DOMAIN tracker'.archives)
                   /\ disk' = Document(tracker'.archives)
                   /\ jres' = "ok"
              ELSE /\ jres' = "err"
                   /\ UNCHANGED <<job_metadata, prev, tracker, order, disk>>
    /\ jpc' = "done"
    /\ UNCHANGED <<job, compression_level, should_encrypt, job_password, given, encoder_level,
                   algorithms, checksums_map, enveloped>>
    /\ UNCHANGED <<metadata, adds, spc, listed>>
    /\ UNCHANGED <<cryptoVars, namerVars, encoderVars, collectorVars, verifyVars, writerVars>>

NextBackup ==
    \/ run_backup_level
    \/ run_backup_encryption
    \/ run_backup_compress
    \/ run_backup_checksums
    \/ run_backup_post_encrypt
    \/ run_backup_verify
    \/ run_backup_save

SpecBackup == InitBackup /\ [][NextBackup]_vars

SpecPipeline == InitPipeline /\ [][NextBackup]_vars

\* the valid range of a kind and its default level
LevelValid(kind, v) ==
    IF kind = "tar.zst" THEN v \in 1..22 ELSE v \in 0..9

LevelDefault(kind) == IF kind = "tar.zst" THEN 3 ELSE 6

\* C13: whether the level comes from the command line or from the loaded
\* configuration, the level that reaches the encoder is inside the valid range
\* of the kind, or absent and then the kind's default (6, 3, 6) is used; a
\* level out of range is replaced by the default, never clamped or passed on.
C13_LevelValidOrDefault ==
    jpc \in {"checksums", "post_encrypt", "verify", "save"} =>
        LET requested == IF job.level.some THEN job.level ELSE job.config_level
        IN  /\ given.compression_level.some =>
                  LevelValid(job.algo, given.compression_level.value)
            /\ encoder_level =
                  IF requested.some /\ LevelValid(job.algo, requested.value)
                  THEN requested.value
                  ELSE LevelDefault(job.algo)

\* the names asked for that HashAlgorithm::from_str does not know
Requested ==
    IF job.checksums.some THEN job.checksums.value
    ELSE IF job.default_hash_algorithm # <<>> THEN <<job.default_hash_algorithm>>
    ELSE <<str_sha256>>

\* C19: an unknown checksum algorithm name is replaced by the safe default
\* (SHA-256) and the job continues; the name is not dropped, so every
\* successful job records at least one digest in its metadata.
C19_UnknownAlgorithmDefaults ==
    (jpc = "done" /\ jres = "ok") =>
        /\ job_metadata.checksums # EmptyMap
        /\ (\E i \in 1..Len(Requested) : ~hash_from_str(Requested[i]).ok) =>
              str_SHA_256 \in DOMAIN job_metadata.checksums

\* C20: in a job with a password exactly one encryption mechanism is applied:
\* for zip the password goes to the encoder and no envelope is written; for
\* tar.gz and tar.zst the password never goes to the encoder and the envelope
\* is applied after encoding; never both on one archive.
C20_OneEncryptionMechanism ==
    /\ ~(given.password.some /\ enveloped)
    /\ given.password.some => job.algo = "zip"
    /\ enveloped => job.algo # "zip" /\ jpc \in {"verify", "save", "done"}
    /\ (job_password.some /\ jpc \in {"verify", "save"}) =>
          IF job.algo = "zip"
          THEN given.password = job_password /\ ~enveloped
          ELSE ~given.password.some /\ enveloped

C20_Witness ==
    /\ jpc = "done" /\ jres = "ok"
    /\ job.algo = "tar.zst"
    /\ job_password.some /\ enveloped /\ ~given.password.some

\* the job has gone through every step and returned Ok
JobSucceeded == jpc = "done" /\ jres = "ok"

\* C23: for every successful job the saved metadata has file_count equal to
\* the length of contents and to the number of files the collector found, and
\* after the job's put the store's list has exactly one record with the job's
\* archive name.
C23_CountsAgree ==
    JobSucceeded =>
        /\ job_metadata.file_count = Len(job_metadata.contents)
        /\ job_metadata.file_count = Len(found)
        /\ LET archives == sort_by(values)
           IN  Cardinality({k \in 1..Len(archives) :
                               archives[k].name = job_metadata.name}) = 1

C26_StoredDigestOfArchive ==
    (JobSucceeded /\ str_SHA_256 \in DOMAIN job_metadata.checksums) =>
        job_metadata.checksums[str_SHA_256] = DigestOf("Sha256", fs[file_path].data)

(***************************************************************************)
(* The files an encryption leaves: the behaviours of the two encryptors on *)
(* their own (SpecCrypto) together with those of run_backup, which calls   *)
(* TarEncryptor::encrypt_file and goes on to verify, upload and record.    *)
(***************************************************************************)
InitBackupFiles == InitCrypto \/ InitPipeline

NextBackupFiles ==
    \/ encrypt_file_read
    \/ derive_key
    \/ encrypt_file_aead
    \/ encrypt_file_rename
    \/ encrypt_file_create
    \/ encrypt_file_write_version
    \/ encrypt_file_write_cipher_id
    \/ encrypt_file_write_salt
    \/ encrypt_file_write_nonce
    \/ encrypt_file_write_ciphertext
    \/ decrypt_file_read
    \/ decrypt_file_parse
    \/ decrypt_file_derive_key
    \/ decrypt_file_aead
    \/ decrypt_file_write
    \/ tar_encrypt_file_metadata
    \/ tar_encrypt_file_create
    \/ tar_encrypt_file_write
    \/ tar_encrypt_file_rename_backup
    \/ tar_encrypt_file_rename_encrypted
    \/ run_backup_level
    \/ run_backup_encryption
    \/ run_backup_compress
    \/ run_backup_checksums
    \/ run_backup_post_encrypt
    \/ run_backup_verify
    \/ run_backup_save

SpecBackupFiles == InitBackupFiles /\ [][NextBackupFiles]_vars

\* the archive as Archiver::compress left it
ArchiveAsEncoded == ContainerBytes(job.algo, handed)

\* C29: after a successful encrypt_file (Encryptor and TarEncryptor alike)
\* the original path holds the encrypted bytes and "<path>.bak" the complete
\* original plaintext, whatever "<path>.bak" held before; neither encrypt_file
\* nor any later step of run_backup removes "<path>.bak".
C29_BackupKept ==
    /\ hist.encOk =>
          /\ fs[backup_path] = FileOf(hist.encIn)
          /\ ~hist.didDec => /\ fs[file_path] = FileOf(hist.encOut)
                             /\ hist.encOut # hist.encIn
    /\ enveloped =>
          /\ fs[backup_path] = FileOf(ArchiveAsEncoded)
          /\ \E st \in Salts, nc \in Nonces :
                fs[file_path] =
                    FileOf(AgeEncrypt(job_password.value, st, nc, ArchiveAsEncoded))

\* the job is over and recorded, its archive enveloped, the encoded archive
\* at "<path>.bak"
C29_Witness ==
    /\ JobSucceeded /\ enveloped
    /\ Len(handed) = 2
    /\ fs[backup_path] = FileOf(ArchiveAsEncoded)
    /\ disk.exists

(***************************************************************************)
(* Cli::run_verify (cli.rs:804-858). The archive file is given by the      *)
(* digest it has under each algorithm; the sidecar file <archive>.sha256,  *)
(* when there is one, by the digest it holds; the state store by the       *)
(* persisted document.                                                     *)
(***************************************************************************)
HashAlgorithms == {"Sha256", "Sha3_256", "Blake3"}

\* the archive files: the digest of each under every algorithm
ArchiveFiles == [HashAlgorithms -> Hashes]

\* algorithm: &Option<String>
AlgorithmOptions ==
    {[some |-> FALSE, value |-> <<>>]} \cup
    {[some |-> TRUE, value |-> a] : a \in {str_sha256, str_blake3, str_md5}}

Sidecars == {None} \cup {Some(h) : h \in Hashes}

\* Checker::generate_checksum_with_algorithm
generate_checksum_with_algorithm(file, algo) == file[algo]

\* Checker::verify_checksum_with_algorithm
verify_checksum_with_algorithm(file, expected, algo) ==
    generate_checksum_with_algorithm(file, algo) = expected

\* Checker::verify_from_checksum_file: the SHA-256 digest of the archive
\* against the one in the sidecar file
verify_from_checksum_file(file, sidecar) ==
    verify_checksum_with_algorithm(file, sidecar.value, "Sha256")

InitVerify ==
    /\ vreq \in [archive : ArchiveNames, algorithm : AlgorithmOptions,
                 sidecar : Sidecars, file : ArchiveFiles]
    /\ vpc = "start"
    /\ vstate = EmptyMap
    /\ vreport = {}
    /\ vres = "none"
    /\ \E doc \in {d \in Documents : WellKeyed(d)} :
          disk \in {[exists |-> FALSE, valid |-> TRUE, archives |-> EmptyMap],
                    Truncated,
                    [exists |-> TRUE, valid |-> TRUE, archives |-> doc]}
    /\ tracker = [loaded |-> FALSE, archives |-> EmptyMap]
    /\ metadata = NoMetadata
    /\ adds = 0
    /\ spc = "off"
    /\ prev = EmptyMap
    /\ order = <<>>
    /\ listed = <<>>
    /\ IdleCrypto /\ IdleNamer /\ IdleEncoder /\ IdleCollector /\ IdleJob
    /\ IdleWriters

\* run_verify, the branch of an existing sidecar file
run_verify_sidecar ==
    /\ vpc = "start"
    /\ IF vreq.sidecar.some
       THEN /\ IF verify_from_checksum_file(vreq.file, vreq.sidecar)
               THEN vreport' = {"Checksum matches"} /\ vres' = "ok"
               ELSE vreport' = {"Checksum mismatch"} /\ vres' = "err"
            /\ vpc' = "done"
       ELSE /\ vpc' = "state"
            /\ UNCHANGED <<vreport, vres>>
    /\ UNCHANGED <<vreq, vstate>>
    /\ UNCHANGED <<cryptoVars, stateVars, namerVars, encoderVars, collectorVars, jobVars, writerVars>>

\* HashAlgorithm::from_str(algo_str)? or HashAlgorithm::Sha256
verify_algo(algorithm) ==
    IF algorithm.some THEN hash_from_str(algorithm.value)
    ELSE [ok |-> TRUE, value |-> "Sha256"]

\* what run_verify prints about the state store, given the loaded archives
state_report(archives, name, file, algo) ==
    IF name \in DOMAIN archives
    THEN LET expected == get_checksum(archives[name], hash_name(algo)) IN
         IF expected.some
         THEN IF verify_checksum_with_algorithm(file, expected.value, algo)
              THEN {"matches state"} ELSE {"mismatch with state"}
         ELSE {"No checksum in state"}
    ELSE {"No stored checksum found in state"}

\* run_verify, the branch without a sidecar file
run_verify_state ==
    /\ vpc = "state"
    /\ LET algo == verify_algo(vreq.algorithm)
           state == Loaded(disk)
       IN  IF ~algo.ok
           THEN /\ vres' = "err"
                /\ UNCHANGED <<vreport, vstate>>
           ELSE IF ~state.loaded
           THEN /\ vreport' = {"digest"}
                /\ vres' = "err"
                /\ UNCHANGED vstate
           ELSE /\ vstate' = state.archives
                /\ vreport' = {"digest"} \cup
                      state_report(state.archives, vreq.archive, vreq.file, algo.value)
                /\ vres' = "ok"
    /\ vpc' = "done"
    /\ UNCHANGED vreq
    /\ UNCHANGED <<cryptoVars, stateVars, namerVars, encoderVars, collectorVars, jobVars, writerVars>>

NextVerify ==
    \/ run_verify_sidecar
    \/ run_verify_state

SpecVerify == InitVerify /\ [][NextVerify]_vars

\* the digest the state store holds for the archive under the algorithm asked for
StoredReference ==
    LET algo == verify_algo(vreq.algorithm)
        state == Loaded(disk)
    IN  IF algo.ok /\ state.loaded /\ vreq.archive \in DOMAIN state.archives
        THEN get_checksum(state.archives[vreq.archive], hash_name(algo.value))
        ELSE None

\* run_verify got as far as comparing with the state store
ComparedWithState ==
    /\ vpc = "done" /\ ~vreq.sidecar.some
    /\ verify_algo(vreq.algorithm).ok /\ Loaded(disk).loaded

\* C18: verify ends in a failure whenever the recomputed digest differs from
\* the reference, be the reference the sidecar file or the digest in the state
\* store, and does not end in a failure when there is no reference; a caller
\* can so tell a mismatch from a missing reference.
C18_MismatchIsFailure ==
    /\ (vpc = "done" /\ vreq.sidecar.some) =>
          (vres = "err" <=> vreq.sidecar.value # vreq.file["Sha256"])
    /\ (ComparedWithState /\ StoredReference.some) =>
          (vres = "err" <=>
              StoredReference.value # vreq.file[verify_algo(vreq.algorithm).value])
    /\ (ComparedWithState /\ ~StoredReference.some) => vres = "ok"

(***************************************************************************)
(* TarEncryptor::decrypt_file and TarEncryptor::is_age_encrypted           *)
(* (encrypt_tar.rs:82-148), run after TarEncryptor::encrypt_file.          *)
(* age::Decryptor::new reads the age header from its input as it is: it    *)
(* does not remove an ASCII armor (that is what age::armor::ArmoredReader  *)
(* is for), so the input has to start with the magic line.                 *)
(***************************************************************************)
\* path.ends_with(".age") on the paths of the model
ends_with_age(path) == path = encrypted_path

\* encrypted_path.trim_end_matches(".age")
trim_end_matches_age(path) == IF ends_with_age(path) THEN file_path ELSE path

\* what age writes without the armor: magic line, salt, nonce, sealed payload
AgeBinary(password, salt, nonce, plaintext) ==
    AgeMagic \o salt \o nonce
        \o AeadEncrypt(ChaCha20Poly1305, ScryptKey(password, salt), nonce, plaintext)

\* age::Decryptor::new(input)? and decryptor.decrypt(identity)?, then the
\* payload the reader yields
AgeDecrypt(password, data) ==
    LET m == Len(AgeMagic) IN
    IF Len(data) < m + SaltLen + NonceLen THEN [ok |-> FALSE, data |-> <<>>]
    ELSE IF SubSeq(data, 1, m) # AgeMagic THEN [ok |-> FALSE, data |-> <<>>]
    ELSE LET salt  == SubSeq(data, m + 1, m + SaltLen)
             nonce == SubSeq(data, m + SaltLen + 1, m + SaltLen + NonceLen)
             body  == SubSeq(data, m + SaltLen + NonceLen + 1, Len(data))
         IN  AeadDecrypt(ChaCha20Poly1305, ScryptKey(password, salt), nonce, body)

\* "age-encryption.org"
str_age_encryption_org == SubSeq(AgeMagic, 1, 18)

\* str::contains
contains(hay, needle) ==
    \E i \in 0..(Len(hay) - Len(needle)) : SubSeq(hay, i + 1, i + Len(needle)) = needle

\* TarEncryptor::is_age_encrypted on the file system f
is_age_encrypted(f, path) ==
    IF ends_with_age(path) THEN TRUE
    ELSE IF f[path].exists /\ Len(f[path].data) >= 32
         THEN contains(from_utf8_lossy(SubSeq(f[path].data, 1, 32)), str_age_encryption_org)
         ELSE FALSE

\* age files that were not armored, as another tool leaves them at <path>.age
PlainAgeFiles ==
    {AgeBinary(<<97>>, st, nc, c) : st \in Salts, nc \in {[i \in 1..NonceLen |-> 0]},
                                    c \in {<<>>, <<1, 200>>}}

InitTar ==
    /\ \E file \in {NoFile} \cup {FileOf(c) : c \in Contents},
          bak \in {NoFile, FileOf(<<9>>)},
          age \in {NoFile} \cup {FileOf(a) : a \in PlainAgeFiles} :
          fs = [p \in Paths |->
                   CASE p = file_path   -> file
                     [] p = backup_path -> bak
                     [] OTHER           -> age]
    /\ pc = "idle"
    /\ self = NoSelf
    /\ loc = NoLoc
    /\ result = "none"
    /\ hist = NoHist
    /\ IdleState /\ IdleNamer /\ IdleEncoder /\ IdleCollector /\ IdleJob /\ IdleVerify
    /\ IdleWriters

\* TarEncryptor::new(password); fs::metadata(encrypted_path)?, File::open,
\* age::Decryptor::new(input)?, decryptor.decrypt(..)?
tar_decrypt_file_open ==
    /\ pc \in {"idle", "done"}
    /\ ~hist.didDec
    /\ \E pw \in Passwords, path \in {file_path, encrypted_path} :
          LET r == AgeDecrypt(pw, fs[path].data) IN
          /\ self' = [password |-> pw, cipher |-> "none"]
          /\ loc' = [NoLoc EXCEPT !.path = path, !.encrypted_data = fs[path].data,
                                  !.plaintext = r.data]
          /\ hist' = [hist EXCEPT !.didDec = TRUE, !.decIn = fs[path].data]
          /\ IF fs[path].exists /\ r.ok
             THEN pc' = "tar_dec_create" /\ result' = "none"
             ELSE Finish("err")
    /\ UNCHANGED fs
    /\ UNCHANGED <<stateVars, namerVars, encoderVars, collectorVars, jobVars, verifyVars, writerVars>>

\* File::create(decrypted_path)?
tar_decrypt_file_create ==
    /\ pc = "tar_dec_create"
    /\ fs' = [fs EXCEPT ![trim_end_matches_age(loc.path)] = FileOf(<<>>)]
    /\ pc' = "tar_dec_write"
    /\ UNCHANGED <<self, loc, result, hist>>
    /\ UNCHANGED <<stateVars, namerVars, encoderVars, collectorVars, jobVars, verifyVars, writerVars>>

\* the read/write loop, output.flush()?; Ok(decrypted_path)
tar_decrypt_file_write ==
    /\ pc = "tar_dec_write"
    /\ fs' = [fs EXCEPT ![trim_end_matches_age(loc.path)] = FileOf(loc.plaintext)]
    /\ Finish("ok")
    /\ UNCHANGED <<self, loc, hist>>
    /\ UNCHANGED <<stateVars, namerVars, encoderVars, collectorVars, jobVars, verifyVars, writerVars>>

NextTar ==
    \/ tar_encrypt_file_metadata
    \/ tar_encrypt_file_create
    \/ tar_encrypt_file_write
    \/ tar_encrypt_file_rename_backup
    \/ tar_encrypt_file_rename_encrypted
    \/ tar_decrypt_file_open
    \/ tar_decrypt_file_create
    \/ tar_decrypt_file_write

SpecTar == InitTar /\ [][NextTar]_vars

\* TarEncryptor::decrypt_file was given the path TarEncryptor::encrypt_file
\* returned, with the file encrypt_file left there
DecryptsReturnedPath ==
    /\ hist.didEnc = "age" /\ hist.encOk
    /\ hist.didDec /\ loc.path = file_path /\ hist.decIn = hist.encOut

\* C21: TarEncryptor::decrypt_file on the path TarEncryptor::encrypt_file
\* returned, with the same password, yields a path whose file holds the
\* original plaintext, for every content and password.
C21_TarRoundTrip ==
    (DecryptsReturnedPath /\ self.password = hist.encPassword /\ pc = "done")
        => /\ result = "ok"
           /\ fs[trim_end_matches_age(loc.path)] = FileOf(hist.encIn)

\* C22: is_age_encrypted is true for the path encrypt_file returned and for
\* every path ending in ".age", and false for the path of an archive that
\* was not encrypted and does not end in ".age".
C22_IsAgeEncrypted ==
    /\ (hist.didEnc = "age" /\ hist.encOk /\ ~hist.didDec) => is_age_encrypted(fs, file_path)
    /\ \A p \in Paths : ends_with_age(p) => is_age_encrypted(fs, p)
    /\ (hist.didEnc = "none" /\ ~hist.didDec) =>
          /\ ~is_age_encrypted(fs, file_path)
          /\ ~is_age_encrypted(fs, backup_path)

(***************************************************************************)
(* Two invocations that record an archive in the same state store. Each    *)
(* one runs the tail of run_backup: StateTracker::load, add_archive of its *)
(* own record, save. Nothing in load or save takes a lock, so the steps of *)
(* the two invocations interleave freely.                                  *)
(***************************************************************************)
Invocations == {1, 2}

\* the archive name of each invocation's record
WriterName(w) == IF w = 1 THEN "a" ELSE "b"

InitWriters ==
    /\ \E doc \in {d \in Documents : WellKeyed(d)} :
          disk \in {[exists |-> FALSE, valid |-> TRUE, archives |-> EmptyMap],
                    [exists |-> TRUE, valid |-> FALSE, archives |-> EmptyMap],
                    [exists |-> TRUE, valid |-> TRUE, archives |-> doc]}
    /\ tracker = [loaded |-> FALSE, archives |-> EmptyMap]
    /\ metadata = NoMetadata
    /\ adds = 0
    /\ spc = "off"
    /\ prev = EmptyMap
    /\ order = <<>>
    /\ listed = <<>>
    /\ writers = [w \in Invocations |->
                     [wpc |-> "start",
                      tracker |-> [loaded |-> FALSE, archives |-> EmptyMap],
                      metadata |-> BaseRecord(WriterName(w), "t3")]]
    /\ overlapped = FALSE
    /\ IdleCrypto /\ IdleNamer /\ IdleEncoder /\ IdleCollector /\ IdleJob /\ IdleVerify

\* the invocation is between its load and the end of its save
InFlight(w) == writers[w].wpc \in {"loaded", "added", "save_write"}

\* a mutant: the invocation starts from an empty tracker whatever is stored
writer_load_default ==
    /\ \E w \in Invocations :
          /\ writers[w].wpc = "start"
          /\ writers' = [writers EXCEPT ![w].tracker = [loaded |-> TRUE, archives |-> EmptyMap],
                                        ![w].wpc = "loaded"]
          /\ overlapped' = (overlapped \/ \E o \in Invocations \ {w} : InFlight(o))
    /\ UNCHANGED stateVars
    /\ UNCHANGED <<cryptoVars, namerVars, encoderVars, collectorVars, jobVars, verifyVars>>

\* let mut state = StateTracker::load()?
writer_load ==
    /\ \E w \in Invocations :
          /\ writers[w].wpc = "start"
          /\ writers' = [writers EXCEPT ![w].tracker = Loaded(disk),
                                        ![w].wpc = IF Loaded(disk).loaded THEN "loaded"
                                                   ELSE "load_failed"]
          /\ overlapped' = (overlapped \/ \E o \in Invocations \ {w} : InFlight(o))
    /\ UNCHANGED stateVars
    /\ UNCHANGED <<cryptoVars, namerVars, encoderVars, collectorVars, jobVars, verifyVars>>

\* state.add_archive(metadata)
writer_add_archive ==
    /\ \E w \in Invocations :
          /\ writers[w].wpc = "loaded"
          /\ writers' = [writers EXCEPT
                            ![w].tracker.archives =
                                MapInsert(@, writers[w].metadata.name, writers[w].metadata),
                            ![w].wpc = "added"]
    /\ UNCHANGED overlapped
    /\ UNCHANGED stateVars
    /\ UNCHANGED <<cryptoVars, namerVars, encoderVars, collectorVars, jobVars, verifyVars>>

\* state.save()? up to the opening of the file by fs::write
writer_save ==
    /\ \E w \in Invocations :
          /\ writers[w].wpc = "added"
          /\ disk' = Truncated
          /\ writers' = [writers EXCEPT ![w].wpc = "save_write"]
    /\ UNCHANGED overlapped
    /\ UNCHANGED <<tracker, metadata, adds, spc, prev, order, listed>>
    /\ UNCHANGED <<cryptoVars, namerVars, encoderVars, collectorVars, jobVars, verifyVars>>

\* state.save()?, write_all inside fs::write and the return
writer_save_write_all ==
    /\ \E w \in Invocations :
          /\ writers[w].wpc = "save_write"
          /\ disk' = Document(writers[w].tracker.archives)
          /\ writers' = [writers EXCEPT ![w].wpc = "saved"]
    /\ UNCHANGED overlapped
    /\ UNCHANGED <<tracker, metadata, adds, spc, prev, order, listed>>
    /\ UNCHANGED <<cryptoVars, namerVars, encoderVars, collectorVars, jobVars, verifyVars>>

NextWriters ==
    \/ writer_load
    \/ writer_add_archive
    \/ writer_save
    \/ writer_save_write_all

SpecWriters == InitWriters /\ [][NextWriters]_vars

\* the persisted document holds the record of invocation w
Recorded(w) ==
    /\ disk.exists /\ disk.valid
    /\ WriterName(w) \in DOMAIN disk.archives
    /\ Deserialize(disk.archives[WriterName(w)]) = writers[w].metadata

AllSaved == \A w \in Invocations : writers[w].wpc = "saved"

\* C25: the state store has no multi-writer safety. When the two
\* invocations run one after the other, each doing load, put and save, the
\* document ends with both records; when their steps interleave, there is an
\* execution after which both have saved and the document lacks one of the
\* two records (C25_Witness).
C25_SerialKeepsBoth ==
    writers # <<>> /\ AllSaved /\ ~overlapped => \A w \in Invocations : Recorded(w)

\* both invocations have saved and one record is not in the document
C25_Witness ==
    /\ writers # <<>> /\ AllSaved /\ overlapped
    /\ \E w \in Invocations : WriterName(w) \notin DOMAIN disk.archives

====
